---- MODULE Spec2Model ----
(***************************************************************************)
(* A model of the Rubik's cube server (src/server.go): the facelet grids,  *)
(* the whole-cube reorientations flip and turn, the spin D of the physical *)
(* Down layer, the calibration map, the move table, Rotate and Apply.      *)
(*                                                                         *)
(* A Go string is a sequence of one-character strings (<<"R", "'">> is the *)
(* move R'), so that Calib can replace a move's first byte.  c.faces maps  *)
(* a label to a *Face: here a label maps to an object number, and pieces   *)
(* maps an object number to that Face's Pieces array (indices 0..8).       *)
(***************************************************************************)
EXTENDS Integers, Sequences, FiniteSets, TLC

(* ----------------------------- bounds ---------------------------------- *)

\* The longest sequence of direct calls (flip, turn, D, D2, d, Rotate).
MaxOps == 2

\* The longest sequence of calls when only flip, turn and D are called.
MaxPrimOps == 5

\* The longest free-form token list handed to Apply.
MaxLen == 2

\* The most /cube requests the server is sent.
MaxReqs == 2

\* The most fields handed to parseField one after the other.
MaxFields == 2

(* ------------------------ constants of the code ------------------------ *)

White == 0
Red == 1
Green == 2
Blue == 3
Yellow == 4
Orange == 5
Unknown == 6

Up == "U"
Left == "L"
Front == "F"
Right == "R"
Back == "B"
Down == "D"

MoveFlip == "flip"
MoveTurn1 == "turn"
MoveTurn2 == "turn2"
MoveRTurn == "turn'"
MoveD == "D"
MoveD2 == "D2"
Moved == "D'"

faceCodes == <<Up, Left, Front, Right, Back, Down>>

Labels == {Up, Left, Front, Right, Back, Down}

\* The zero byte a Go map lookup yields for a key that is absent.
NUL == ""

(* ----------------------------- input ----------------------------------- *)

\* strings.ToLower on the field strings the model uses.
ToLower(s) ==
  CASE s \in {"W", "w"} -> "w"
    [] s \in {"R", "r"} -> "r"
    [] s \in {"G", "g"} -> "g"
    [] s \in {"B", "b"} -> "b"
    [] s \in {"Y", "y"} -> "y"
    [] s \in {"O", "o"} -> "o"
    [] s \in {"White", "WHITE", "white", "wHiTe"} -> "white"
    [] s \in {"Red", "RED", "red"} -> "red"
    [] s \in {"Green", "GREEN", "green"} -> "green"
    [] s \in {"Blue", "BLUE", "blue"} -> "blue"
    [] s \in {"Yellow", "YELLOW", "yellow"} -> "yellow"
    [] s \in {"Orange", "ORANGE", "orange", "oRANGE"} -> "orange"
    [] OTHER -> s

\* The switch compares the lowered string with the case labels as written.
parseField(s0) ==
  LET s == ToLower(s0)
  IN CASE s \in {"white", "w"} -> White
       [] s \in {"Red", "r"} -> Red
       [] s \in {"Green", "g"} -> Green
       [] s \in {"Blue", "b"} -> Blue
       [] s \in {"Yellow", "y"} -> Yellow
       [] s \in {"Orange", "o"} -> Orange
       [] OTHER -> Unknown

\* The Pieces of the Face readFace builds from a 9-character line.
readFace(line) == [i \in 0..8 |-> parseField(line[i + 1])]

NewCube ==
  [faces |-> << >>,
   pieces |-> << >>,
   calibs |-> (Up :> Up) @@ (Left :> Left) @@ (Front :> Front) @@
              (Right :> Right) @@ (Back :> Back) @@ (Down :> Down)]

\* A faulty variant that C21 rejects: the six Faces are kept per label for the
\* whole process instead of being allocated by each call of readFace.
SetFaceShared(c, code, face) ==
  LET obj == CHOOSE k \in 1..Len(faceCodes) : faceCodes[k] = code
  IN [c EXCEPT !.faces = (code :> obj) @@ c.faces,
               !.pieces = (obj :> face) @@ c.pieces]

\* c.faces[code] = face, the Face being a newly allocated object.
SetFace(c, code, face) ==
  LET obj == Cardinality(DOMAIN c.pieces) + 1
  IN [c EXCEPT !.faces = (code :> obj) @@ c.faces,
               !.pieces = (obj :> face) @@ c.pieces]

\* The loop of httpCube that reads the six faces, in the order U L F R B D.
RECURSIVE readCube(_, _, _)
readCube(c, form, k) ==
  IF k > Len(faceCodes) THEN c
  ELSE readCube(SetFace(c, faceCodes[k], readFace(form[faceCodes[k]])), form, k + 1)

\* The example requests of the README.
SolvedForm ==
  (Up :> <<"w","w","w","w","w","w","w","w","w">>) @@
  (Left :> <<"g","g","g","g","g","g","g","g","g">>) @@
  (Front :> <<"b","b","b","b","b","b","b","b","b">>) @@
  (Right :> <<"o","o","o","o","o","o","o","o","o">>) @@
  (Back :> <<"r","r","r","r","r","r","r","r","r">>) @@
  (Down :> <<"y","y","y","y","y","y","y","y","y">>)

ScrambledForm ==
  (Up :> <<"b","w","w","b","y","r","y","y","r">>) @@
  (Left :> <<"w","r","r","r","g","y","y","o","o">>) @@
  (Front :> <<"g","g","b","o","o","b","y","g","y">>) @@
  (Right :> <<"w","y","g","w","b","y","o","r","o">>) @@
  (Back :> <<"r","o","o","b","r","g","w","w","b">>) @@
  (Down :> <<"b","o","g","b","w","w","r","g","g">>)

Forms == {SolvedForm, ScrambledForm}

(* ------------------------ single-grid helpers -------------------------- *)

\* f.Pieces[to] = f.Pieces[from], and f.Pieces[to] = v for a saved colour v.
move(f, to, from) == [f EXCEPT ![to] = f[from]]

put(f, to, v) == [f EXCEPT ![to] = v]

\* f.Pieces[i], f.Pieces[j] = f.Pieces[j], f.Pieces[i]
swap(f, i, j) == [f EXCEPT ![i] = f[j], ![j] = f[i]]

\* rotateClock: the corners (saved is Pieces[0]), then the edges (saved is Pieces[1]).
clockCorners(f) == put(move(move(move(f, 0, 6), 6, 8), 8, 2), 2, f[0])

\* A faulty variant that C28 rejects: the edges go round the other way, as in
\* rotateCounterclock.
clockEdgesAsCounter(f) == put(move(move(move(f, 1, 5), 5, 7), 7, 3), 3, f[1])

clockEdges(f) == put(move(move(move(f, 1, 3), 3, 7), 7, 5), 5, f[1])

rotateClock(f) == clockEdges(clockCorners(f))

counterCorners(f) == put(move(move(move(f, 0, 2), 2, 8), 8, 6), 6, f[0])

counterEdges(f) == put(move(move(move(f, 1, 5), 5, 7), 7, 3), 3, f[1])

\* A faulty variant that C4 rejects: the edges of the grid stay where they are.
rotateCounterclockCornersOnly(f) == counterCorners(f)

rotateCounterclock(f) == counterEdges(counterCorners(f))

invert(f) == swap(swap(swap(swap(f, 0, 8), 1, 7), 2, 6), 3, 5)

\* helper(c.faces[code]): a helper acts on the object the label points to.
invertAt(c, code) == [c EXCEPT !.pieces[c.faces[code]] = invert(@)]

rotateClockAt(c, code) == [c EXCEPT !.pieces[c.faces[code]] = rotateClock(@)]

rotateCounterclockAt(c, code) == [c EXCEPT !.pieces[c.faces[code]] = rotateCounterclock(@)]

\* c.faces[to] = c.faces[from], and c.faces[to] = saved.
pointTo(c, to, from) == [c EXCEPT !.faces[to] = c.faces[from]]

assignFace(c, to, saved) == [c EXCEPT !.faces[to] = saved]

(* --------------------- whole-cube reorientations ----------------------- *)

\* A faulty variant that C2 rejects: the calibration follows the cycle the wrong way.
flipCalibBackwards(v) ==
  CASE v = Up -> Front
    [] v = Front -> Down
    [] v = Down -> Back
    [] v = Back -> Up
    [] OTHER -> v

\* The switch of flip's calibs loop, for one entry's value.
flipCalib(v) ==
  CASE v = Up -> Back
    [] v = Front -> Up
    [] v = Down -> Front
    [] v = Back -> Down
    [] OTHER -> v

\* A faulty variant that C24 rejects: Back takes c.faces[Up] as it is after the
\* loop, with no saved value.
flipFacesNothingSaved(c) ==
  pointTo(pointTo(pointTo(pointTo(c, Up, Front), Front, Down), Down, Back), Back, Up)

\* flip's loop over Front, Down, Back (saved is c.faces[Up]).
flipFaces(c) ==
  assignFace(pointTo(pointTo(pointTo(c, Up, Front), Front, Down), Down, Back), Back, c.faces[Up])

\* A faulty variant that C7 rejects: the grid that arrives at Down is not inverted.
flipPiecesOneInvert(c) ==
  rotateCounterclockAt(rotateClockAt(invertAt(c, Back), Right), Left)

\* The four helper calls of flip, in the code's order.
flipPieces(c) ==
  rotateCounterclockAt(rotateClockAt(invertAt(invertAt(c, Back), Down), Right), Left)

\* A faulty variant that C30 rejects: flip leaves the calibration as it is.
flipCalibsForgotten(c) == c

flipCalibs(c) == [c EXCEPT !.calibs = [code \in DOMAIN @ |-> flipCalib(@[code])]]

flip(c) == flipCalibs(flipPieces(flipFaces(c)))

\* A faulty variant that C8 rejects: a value of Back stays Back.
turnCalibStuck(v) ==
  CASE v = Left -> Back
    [] v = Front -> Left
    [] v = Right -> Front
    [] OTHER -> v

\* The switch of turn's calibs loop, for one entry's value.
turnCalib(v) ==
  CASE v = Left -> Back
    [] v = Front -> Left
    [] v = Right -> Front
    [] v = Back -> Right
    [] OTHER -> v

\* A faulty variant that C25 rejects: the side grids travel the other way round,
\* from Left to Front, Front to Right, Right to Back and Back to Left.
turnFacesOtherWay(c) ==
  assignFace(pointTo(pointTo(pointTo(c, Back, Right), Right, Front), Front, Left),
             Left, c.faces[Back])

\* turn's inner loop over Left, Front, Right, Back (saved is c.faces[Left]).
turnFaces(c) ==
  assignFace(pointTo(pointTo(pointTo(pointTo(c, Left, Left), Left, Front), Front, Right),
                  Right, Back),
          Back, c.faces[Left])

turnPieces(c) == rotateCounterclockAt(rotateClockAt(c, Up), Down)

\* A faulty variant that C5 rejects: turn forgets to update the calibration.
turnCalibsForgotten(c) == c

turnCalibs(c) == [c EXCEPT !.calibs = [code \in DOMAIN @ |-> turnCalib(@[code])]]

\* One pass of turn's outer loop.
turnOnce(c) == turnCalibs(turnPieces(turnFaces(c)))

RECURSIVE turn(_, _)
turn(c, n) == IF n <= 0 THEN c ELSE turn(turnOnce(c), n - 1)

\* A faulty variant that C3 rejects: one turn forward instead of three.
reverseTurnForward(c) == turn(c, 1)

reverseTurn(c) == turn(c, 3)

(* ------------------------------ spins ---------------------------------- *)

\* A faulty variant that C27 rejects: the loop over i runs from 0 and copies the
\* whole Pieces array.
setRowFromZero(c, to, src) == [c EXCEPT !.pieces[c.faces[to]] = src]

\* Pieces[6..8] of the grid at label to become those of the Pieces array src.
setRow(c, to, src) ==
  [c EXCEPT !.pieces[c.faces[to]] = [@ EXCEPT ![6] = src[6], ![7] = src[7], ![8] = src[8]]]

\* c.faces[last].Pieces[i] = c.faces[cur].Pieces[i] for i = 6, 7, 8.
copyRow(c, lastCode, cur) == setRow(c, lastCode, c.pieces[c.faces[cur]])

\* A faulty variant that C1 rejects: the rows travel the other way round (Left takes
\* Front's row, Front Right's, Right Back's), as in an earlier version of D.
spinRowsReversed(c) ==
  setRow(copyRow(copyRow(copyRow(c, Left, Front), Front, Right), Right, Back),
         Back, c.pieces[c.faces[Left]])

\* A faulty variant that C33 rejects: left is the Pieces of Left themselves and
\* not a copy, so that Front takes the row Left has just been given.
spinRowsNoCopy(c) ==
  copyRow(copyRow(copyRow(copyRow(c, Left, Back), Back, Right), Right, Front), Front, Left)

\* D's loop over Back, Right, Front, then the saved row of Left (left is a copy of
\* Left's Pieces array taken before the loop).
spinRows(c) ==
  setRow(copyRow(copyRow(copyRow(c, Left, Back), Back, Right), Right, Front),
         Front, c.pieces[c.faces[Left]])

\* A faulty variant that C26 rejects: the rows travel and the Down grid stays as
\* it is.
DRowsOnly(c) == spinRows(c)

D(c) == rotateClockAt(spinRows(c), Down)

\* A faulty variant that C29 rejects: D2 spins once.
D2Once(c) == D(c)

D2(c) == D(D(c))

\* A faulty variant that C6 rejects: two quarter spins instead of three.
dTwice(c) == D(D(c))

d(c) == D(D(D(c)))

(* --------------------------- the move table ---------------------------- *)

\* The keys of the map newMoves builds.
MoveKeys ==
  {<<x>> : x \in Labels} \cup {<<x, "2">> : x \in Labels} \cup {<<x, "'">> : x \in Labels}

\* newMoves()[key](c), face by face: the cube the closure leaves and the slice it
\* returns.
movesD(key, c) ==
  CASE key = <<"D">> -> [c |-> D(c), out |-> <<MoveD>>]
    [] key = <<"D", "2">> -> [c |-> D(D(c)), out |-> <<MoveD2>>]
    [] key = <<"D", "'">> -> [c |-> d(c), out |-> <<Moved>>]

\* A faulty variant that C10 rejects: B leaves its spin out of the tokens.
movesBNoSpinToken(key, c) ==
  CASE key = <<"B">> -> [c |-> D(flip(c)), out |-> <<MoveFlip>>]
    [] key = <<"B", "2">> -> [c |-> D2(flip(c)), out |-> <<MoveFlip, MoveD2>>]
    [] key = <<"B", "'">> -> [c |-> d(flip(c)), out |-> <<MoveFlip, Moved>>]

movesB(key, c) ==
  CASE key = <<"B">> -> [c |-> D(flip(c)), out |-> <<MoveFlip, MoveD>>]
    [] key = <<"B", "2">> -> [c |-> D2(flip(c)), out |-> <<MoveFlip, MoveD2>>]
    [] key = <<"B", "'">> -> [c |-> d(flip(c)), out |-> <<MoveFlip, Moved>>]

movesU(key, c) ==
  CASE key = <<"U">> -> [c |-> D(flip(flip(c))), out |-> <<MoveFlip, MoveFlip, MoveD>>]
    [] key = <<"U", "2">> -> [c |-> D2(flip(flip(c))), out |-> <<MoveFlip, MoveFlip, MoveD2>>]
    [] key = <<"U", "'">> -> [c |-> d(flip(flip(c))), out |-> <<MoveFlip, MoveFlip, Moved>>]

movesL(key, c) ==
  CASE key = <<"L">> -> [c |-> D(flip(turn(c, 1))), out |-> <<MoveTurn1, MoveFlip, MoveD>>]
    [] key = <<"L", "2">> -> [c |-> D2(flip(turn(c, 1))), out |-> <<MoveTurn1, MoveFlip, MoveD2>>]
    [] key = <<"L", "'">> -> [c |-> d(flip(turn(c, 1))), out |-> <<MoveTurn1, MoveFlip, Moved>>]

movesR(key, c) ==
  CASE key = <<"R">> -> [c |-> D(flip(reverseTurn(c))), out |-> <<MoveRTurn, MoveFlip, MoveD>>]
    [] key = <<"R", "2">> -> [c |-> D2(flip(reverseTurn(c))), out |-> <<MoveRTurn, MoveFlip, MoveD2>>]
    [] key = <<"R", "'">> -> [c |-> d(flip(reverseTurn(c))), out |-> <<MoveRTurn, MoveFlip, Moved>>]

\* A faulty variant that C9 rejects: F2 reports a quarter spin.
movesFWrongToken(key, c) ==
  CASE key = <<"F">> -> [c |-> D(flip(turn(c, 2))), out |-> <<MoveTurn2, MoveFlip, MoveD>>]
    [] key = <<"F", "2">> -> [c |-> D2(flip(turn(c, 2))), out |-> <<MoveTurn2, MoveFlip, MoveD>>]
    [] key = <<"F", "'">> -> [c |-> d(flip(turn(c, 2))), out |-> <<MoveTurn2, MoveFlip, Moved>>]

movesF(key, c) ==
  CASE key = <<"F">> -> [c |-> D(flip(turn(c, 2))), out |-> <<MoveTurn2, MoveFlip, MoveD>>]
    [] key = <<"F", "2">> -> [c |-> D2(flip(turn(c, 2))), out |-> <<MoveTurn2, MoveFlip, MoveD2>>]
    [] key = <<"F", "'">> -> [c |-> d(flip(turn(c, 2))), out |-> <<MoveTurn2, MoveFlip, Moved>>]

\* The map lookup c.moves[key], for a key of the map.
newMoves(key, c) ==
  CASE key[1] = Down -> movesD(key, c)
    [] key[1] = Back -> movesB(key, c)
    [] key[1] = Up -> movesU(key, c)
    [] key[1] = Left -> movesL(key, c)
    [] key[1] = Right -> movesR(key, c)
    [] key[1] = Front -> movesF(key, c)

\* A faulty variant that C31 rejects: a byte that is no key of the map reads as
\* Down.
calibOfAbsentIsDown(c, b) == IF b \in DOMAIN c.calibs THEN c.calibs[b] ELSE Down

\* c.calibs[b]: the zero byte when b is no key of the map.
calibOf(c, b) == IF b \in DOMAIN c.calibs THEN c.calibs[b] ELSE NUL

\* Calib replaces the first byte of a non-empty move (it panics on an empty one).
Calib(c, old) == [old EXCEPT ![1] = calibOf(c, old[1])]

\* A nil error, and the error Rotate builds from the move it was given.
NoErr == <<>>

noSuchMove(m) == <<"no such move: ", m>>

\* Rotate(m) for a non-empty m: the cube afterwards, the tokens and the error.
Rotate(c, m) ==
  LET key == Calib(c, m)
  IN IF key \in MoveKeys
       THEN LET r == newMoves(key, c)
            IN [c |-> r.c, out |-> r.out, err |-> NoErr]
       ELSE [c |-> c, out |-> <<>>, err |-> noSuchMove(m)]

\* strings.TrimSpace.
WhiteSpace == {" ", "\t", "\n", "\r"}

\* A faulty variant that C13 rejects: nothing is trimmed.
TrimSpaceNothing(s) == s

RECURSIVE TrimSpace(_)
TrimSpace(s) ==
  IF s = <<>> THEN s
  ELSE IF Head(s) \in WhiteSpace THEN TrimSpace(Tail(s))
  ELSE IF s[Len(s)] \in WhiteSpace THEN TrimSpace(SubSeq(s, 1, Len(s) - 1))
  ELSE s

\* A faulty variant that C11 rejects: the tokens of a move go in front of those
\* collected so far.
RECURSIVE applyLoopPrepend(_, _, _, _)
applyLoopPrepend(c, moves, i, pMoves) ==
  IF i > Len(moves) THEN [c |-> c, out |-> pMoves, err |-> NoErr]
  ELSE LET m == TrimSpace(moves[i])
       IN IF Len(m) = 0 THEN applyLoopPrepend(c, moves, i + 1, pMoves)
          ELSE LET r == Rotate(c, m)
               IN IF r.err # NoErr THEN [c |-> r.c, out |-> <<>>, err |-> r.err]
                  ELSE applyLoopPrepend(r.c, moves, i + 1, r.out \o pMoves)

\* A faulty variant that C32 rejects: with the error Apply returns the tokens it
\* has collected.
RECURSIVE applyLoopReturnsCollected(_, _, _, _)
applyLoopReturnsCollected(c, moves, i, pMoves) ==
  IF i > Len(moves) THEN [c |-> c, out |-> pMoves, err |-> NoErr]
  ELSE LET m == TrimSpace(moves[i])
       IN IF Len(m) = 0 THEN applyLoopReturnsCollected(c, moves, i + 1, pMoves)
          ELSE LET r == Rotate(c, m)
               IN IF r.err # NoErr THEN [c |-> r.c, out |-> pMoves, err |-> r.err]
                  ELSE applyLoopReturnsCollected(r.c, moves, i + 1, pMoves \o r.out)

\* Apply's loop from index i (1-based here) on, pMoves being what it has collected.
RECURSIVE applyLoop(_, _, _, _)
applyLoop(c, moves, i, pMoves) ==
  IF i > Len(moves) THEN [c |-> c, out |-> pMoves, err |-> NoErr]
  ELSE LET m == TrimSpace(moves[i])
       IN IF Len(m) = 0 THEN applyLoop(c, moves, i + 1, pMoves)
          ELSE LET r == Rotate(c, m)
               IN IF r.err # NoErr THEN [c |-> r.c, out |-> <<>>, err |-> r.err]
                  ELSE applyLoop(r.c, moves, i + 1, pMoves \o r.out)

Apply(c, moves) == applyLoop(c, moves, 1, <<>>)

(* --------------------------- the scramble string ----------------------- *)

\* The letters the first loop of KociembaScramble can leave at colorToCode[col]:
\* c.calibs[code] of every face whose centre is col.
centreCodes(c, col) == {c.calibs[code] : code \in {x \in DOMAIN c.faces : c.pieces[c.faces[x]][4] = col}}

\* The maps colorToCode the first loop can build, for the colours from col on.  A
\* Go map is ranged over in no fixed order: when two faces have the same centre
\* colour, the face ranged over last leaves its letter.
RECURSIVE colorToCode(_, _)
colorToCode(c, col) ==
  IF col > Unknown THEN {<< >>}
  ELSE IF centreCodes(c, col) = {} THEN colorToCode(c, col + 1)
  ELSE {(col :> w) @@ f : w \in centreCodes(c, col), f \in colorToCode(c, col + 1)}

\* A faulty variant that C14 rejects: the faces in the order httpCube reads them.
scrambleOrderAsRead == <<Up, Left, Front, Right, Back, Down>>

\* The faces in the order the second loop appends them.
scrambleOrder == <<Up, Right, Front, Down, Left, Back>>

\* colorToCode[color]: the zero byte for a colour that is no key.
codeOf(f, color) == IF color \in DOMAIN f THEN f[color] ELSE NUL

\* The buffer the second loop fills from a given colorToCode.
scrambleWith(c, f) ==
  [k \in 1..(9 * Len(scrambleOrder)) |->
     codeOf(f, c.pieces[c.faces[scrambleOrder[((k - 1) \div 9) + 1]]][(k - 1) % 9])]

\* The strings KociembaScramble can return.
KociembaScramble(c) == {scrambleWith(c, f) : f \in colorToCode(c, White)}

(* ------------------------------ inputs --------------------------------- *)

\* The 18 algebraic moves.
ValidMoves == MoveKeys

Quarter == {<<x>> : x \in Labels} \cup {<<x, "'">> : x \in Labels}

\* Malformed tokens: an unknown face, a lower-case face, an unknown suffix.
BadTokens == {<<"X">>, <<"u">>, <<"U", "3">>}

\* Tokens a split of the solver's output can hold besides moves: the empty
\* string, white space, a move with white space around it.
BlankTokens == {<<>>, <<" ">>}

PaddedTokens == {<<" ", "D", "\n">>}

RotateInputs == ValidMoves \cup BadTokens

ApplyTokens == ValidMoves \cup BadTokens \cup BlankTokens \cup PaddedTokens

RECURSIVE Repeat(_, _)
Repeat(s, n) == IF n <= 0 THEN <<>> ELSE s \o Repeat(s, n - 1)

\* R U R' U', six times over.
Commutator == << <<"R">>, <<"U">>, <<"R", "'">>, <<"U", "'">> >>

SixCommutators == Repeat(Commutator, 6)

\* One quarter-turn move four times over.
FourTimes == {Repeat(<<m>>, 4) : m \in Quarter}

RECURSIVE ListsUpTo(_, _)
ListsUpTo(S, n) ==
  IF n <= 0 THEN {<<>>}
  ELSE LET shorter == ListsUpTo(S, n - 1)
       IN shorter \cup {Append(l, x) : l \in shorter, x \in S}

MoveLists == ListsUpTo(ApplyTokens, MaxLen) \cup FourTimes \cup {SixCommutators}

(* ------------------------------- state --------------------------------- *)

VARIABLES
  c,      \* the Cube: faces (label -> object), pieces (object -> Pieces), calibs
  log,    \* the calls made on c so far, each with what it returned
  trail,  \* the cube before each of those calls
  heap,   \* the Faces that handlers running side by side have allocated
  hs,     \* those handlers: where each one is and its local variables
  ev3     \* the EV3 client: its motors, curTurn and the steps it executes

vars == <<c, log, trail, heap, hs, ev3>>

\* No handler runs side by side with another one, and no client is there.
Alone == heap = <<>> /\ hs = <<>> /\ ev3 = <<>>

Entry(op, n, m, ms, out, err) ==
  [op |-> op, n |-> n, m |-> m, ms |-> ms, out |-> out, err |-> err]

\* httpCube builds the cube with NewCube and six SetFace calls.
Init ==
  /\ c \in {readCube(NewCube, form, 1) : form \in Forms}
  /\ log = <<>>
  /\ trail = <<>>
  /\ Alone

Applied == log # <<>> /\ log[1].op = "Apply"

\* A call returns: the cube it leaves, and the log's record of it.
Returns(e, c2) ==
  /\ c' = c2
  /\ log' = Append(log, e)
  /\ trail' = Append(trail, c)
  /\ UNCHANGED <<heap, hs, ev3>>

DoFlip ==
  /\ Len(log) < MaxOps /\ ~Applied
  /\ Returns(Entry("flip", 0, <<>>, <<>>, <<>>, NoErr), flip(c))

DoTurn ==
  /\ Len(log) < MaxOps /\ ~Applied
  /\ \E n \in 0..3 : Returns(Entry("turn", n, <<>>, <<>>, <<>>, NoErr), turn(c, n))

DoD ==
  /\ Len(log) < MaxOps /\ ~Applied
  /\ Returns(Entry("D", 0, <<>>, <<>>, <<>>, NoErr), D(c))

DoD2 ==
  /\ Len(log) < MaxOps /\ ~Applied
  /\ Returns(Entry("D2", 0, <<>>, <<>>, <<>>, NoErr), D2(c))

Dod ==
  /\ Len(log) < MaxOps /\ ~Applied
  /\ Returns(Entry("d", 0, <<>>, <<>>, <<>>, NoErr), d(c))

DoRotate ==
  /\ Len(log) < MaxOps /\ ~Applied
  /\ \E m \in RotateInputs :
       LET r == Rotate(c, m)
       IN Returns(Entry("Rotate", 0, m, <<>>, r.out, r.err), r.c)

\* httpCube calls Apply once, on the cube it has just built.
DoApply ==
  /\ log = <<>>
  /\ \E ms \in MoveLists :
       LET r == Apply(c, ms)
       IN Returns(Entry("Apply", 0, <<>>, ms, r.out, r.err), r.c)

Next == DoFlip \/ DoTurn \/ DoD \/ DoD2 \/ Dod \/ DoRotate \/ DoApply

Spec == Init /\ [][Next]_vars

\* Only the reorientations and the spin are called, in longer sequences.
PrimFlip ==
  /\ Len(log) < MaxPrimOps
  /\ Returns(Entry("flip", 0, <<>>, <<>>, <<>>, NoErr), flip(c))

PrimTurn ==
  /\ Len(log) < MaxPrimOps
  /\ \E n \in 0..3 : Returns(Entry("turn", n, <<>>, <<>>, <<>>, NoErr), turn(c, n))

PrimD ==
  /\ Len(log) < MaxPrimOps
  /\ Returns(Entry("D", 0, <<>>, <<>>, <<>>, NoErr), D(c))

NextPrim == PrimFlip \/ PrimTurn \/ PrimD

SpecPrim == Init /\ [][NextPrim]_vars

\* Requests for solved cubes in other colourings than the README's.
nine(ch) == <<ch, ch, ch, ch, ch, ch, ch, ch, ch>>

MonoForm(cu, cl, cf, cr, cb, cd) ==
  (Up :> nine(cu)) @@ (Left :> nine(cl)) @@ (Front :> nine(cf)) @@
  (Right :> nine(cr)) @@ (Back :> nine(cb)) @@ (Down :> nine(cd))

RecolouredForms == {MonoForm("y", "b", "r", "g", "o", "w"), MonoForm("G", "W", "O", "Y", "R", "B")}

\* The scramble string is asked for, once, after some reorientations and moves.
InitScramble ==
  /\ c \in {readCube(NewCube, form, 1) : form \in Forms \cup RecolouredForms}
  /\ log = <<>>
  /\ trail = <<>>
  /\ Alone

Encoded == log # <<>> /\ log[Len(log)].op = "KociembaScramble"

ScrFlip ==
  /\ Len(log) < MaxOps /\ ~Encoded
  /\ Returns(Entry("flip", 0, <<>>, <<>>, <<>>, NoErr), flip(c))

ScrTurn ==
  /\ Len(log) < MaxOps /\ ~Encoded
  /\ \E n \in 1..3 : Returns(Entry("turn", n, <<>>, <<>>, <<>>, NoErr), turn(c, n))

ScrRotate ==
  /\ Len(log) < MaxOps /\ ~Encoded
  /\ \E m \in ValidMoves :
       LET r == Rotate(c, m)
       IN Returns(Entry("Rotate", 0, m, <<>>, r.out, r.err), r.c)

ScrEncode ==
  /\ ~Encoded
  /\ \E s \in KociembaScramble(c) :
       Returns(Entry("KociembaScramble", 0, <<>>, <<>>, s, NoErr), c)

NextScramble == ScrFlip \/ ScrTurn \/ ScrRotate \/ ScrEncode

SpecScramble == InitScramble /\ [][NextScramble]_vars

(* ---------------------------- the /cube handler ------------------------ *)

\* An error or response text: the format as written in the code, then the values
\* formatted into it, each a sequence of characters.
unknownColor(k, v, ch) == <<"ERROR: readFace(%s, %s) error: unknown color name: %s", <<k>>, v, <<ch>>>>

badLength(k) == <<"face %s must contain only [wrboyg], and must be 9 chars.", <<k>>>>

\* A faulty variant that C23 rejects: readFace looks at the first character of
\* the line only.
firstUnknownAtStart(line) ==
  IF Len(line) = 0 \/ parseField(line[1]) # Unknown THEN 0 ELSE 1

\* The place of the first character of a line that parseField does not know, or
\* 0 when it knows them all: where readFace returns its error.
firstUnknown(line) ==
  IF \A i \in 1..Len(line) : parseField(line[i]) # Unknown THEN 0
  ELSE CHOOSE i \in 1..Len(line) :
         parseField(line[i]) = Unknown /\ \A j \in 1..(i - 1) : parseField(line[j]) # Unknown

\* The loop of httpCube over the six form values, with its two early returns.
RECURSIVE readFaces(_, _, _)
readFaces(cube, form, k) ==
  IF k > Len(faceCodes) THEN [c |-> cube, status |-> 200, body |-> <<>>]
  ELSE IF Len(form[faceCodes[k]]) # 9
    THEN [c |-> cube, status |-> 400, body |-> badLength(faceCodes[k])]
  ELSE IF firstUnknown(form[faceCodes[k]]) # 0
    THEN [c |-> cube, status |-> 400,
          body |-> unknownColor(faceCodes[k], form[faceCodes[k]],
                                form[faceCodes[k]][firstUnknown(form[faceCodes[k]])])]
  ELSE readFaces(SetFace(cube, faceCodes[k], readFace(form[faceCodes[k]])), form, k + 1)

\* strings.Split(s, " ").
RECURSIVE Split(_)
Split(s) ==
  IF \A k \in 1..Len(s) : s[k] # " " THEN <<s>>
  ELSE LET k == CHOOSE i \in 1..Len(s) : s[i] = " " /\ \A j \in 1..(i - 1) : s[j] # " "
       IN <<SubSeq(s, 1, k - 1)>> \o Split(SubSeq(s, k + 1, Len(s)))

\* What one run of httpCube did: the response (status 0: none was sent), the cube
\* as read and as left, the string handed to the solver, the steps it printed,
\* the tokens Apply returned, and whether the process was ended by os.Exit.
Request(form, status, body, built, left, invoked, scramble, failed, steps, moves, exit) ==
  [op |-> "httpCube", form |-> form, status |-> status, body |-> body,
   built |-> built, left |-> left, invoked |-> invoked, scramble |-> scramble,
   failed |-> failed, steps |-> steps, moves |-> moves, exit |-> exit]

\* The first return of httpCube: a face could not be read.
rejected(form, rd) ==
  Request(form, rd.status, rd.body, rd.c, rd.c, FALSE, <<>>, FALSE, <<>>, <<>>, FALSE)

\* solve's error branch: the solver did not start or exited non-zero.
solverFailed(form, built, scramble) ==
  Request(form, 0, <<>>, built, built, TRUE, scramble, TRUE, <<>>, <<>>, TRUE)

\* httpCube after solve returned steps: Apply, and the response written on
\* success; when Apply fails the handler returns without writing anything.
applied(form, built, scramble, steps, r) ==
  IF r.err # NoErr
    THEN Request(form, 200, <<>>, built, r.c, TRUE, scramble, FALSE, steps, <<>>, FALSE)
    ELSE Request(form, 200, <<"OK: step=%d: %s %v", Len(steps), steps, r.out>>,
                 built, r.c, TRUE, scramble, FALSE, steps, r.out, FALSE)

\* httpCube once the six faces are read.
solved(form, built, scramble, run) ==
  IF ~run.ok THEN solverFailed(form, built, scramble)
  ELSE applied(form, built, scramble, Split(TrimSpace(run.out)),
               Apply(built, Split(TrimSpace(run.out))))

\* The form values of the requests sent: the README's, a solved cube in capitals,
\* cubes that no real cube shows, and faces that are missing, short, long or
\* hold a character that is no colour.
AllWhiteForm == MonoForm("w", "w", "w", "w", "w", "w")

NoGreenCentreForm == [SolvedForm EXCEPT ![Left] = <<"w", "w", "w", "w", "w", "w", "w", "w", "g">>]

HttpForms ==
  Forms \cup RecolouredForms \cup {AllWhiteForm, NoGreenCentreForm} \cup
  {[SolvedForm EXCEPT ![Up] = <<>>],
   [SolvedForm EXCEPT ![Front] = <<"b", "b", "b", "b", "b", "b", "b", "b">>],
   [ScrambledForm EXCEPT ![Down] = <<"b", "o", "g", "b", "w", "w", "r", "g", "g", "g">>],
   [ScrambledForm EXCEPT ![Right] = <<"w", "y", "x", "w", "b", "z", "o", "r", "o">>]}

\* What running the solver can give: no output because it failed, or its output.
SolverRuns ==
  {[ok |-> FALSE, out |-> <<>>],
   [ok |-> TRUE, out |-> <<>>],
   [ok |-> TRUE, out |-> <<"R", " ", "U", " ", "R", "'", " ", "U", "'", "\n">>],
   [ok |-> TRUE, out |-> <<"D", "2", " ", " ", "F", " ", "\n">>],
   [ok |-> TRUE, out |-> <<"U", " ", "X", "\n">>]}

\* The server has been started and no request has come in.
InitHttp ==
  /\ c = NewCube
  /\ log = <<>>
  /\ trail = <<>>
  /\ Alone

\* os.Exit has ended the process.
Exited == log # <<>> /\ log[Len(log)].exit

\* A run of httpCube is over: c is the cube it worked on.
Served(req) ==
  /\ c' = req.left
  /\ log' = Append(log, req)
  /\ trail' = Append(trail, req.built)
  /\ UNCHANGED <<heap, hs, ev3>>

HttpCube ==
  /\ ~Exited /\ Len(log) < MaxReqs
  /\ \E form \in HttpForms, run \in SolverRuns :
       IF readFaces(NewCube, form, 1).status # 200
         THEN Served(rejected(form, readFaces(NewCube, form, 1)))
         ELSE \E scramble \in KociembaScramble(readFaces(NewCube, form, 1).c) :
                Served(solved(form, readFaces(NewCube, form, 1).c, scramble, run))

NextHttp == HttpCube

SpecHttp == InitHttp /\ [][NextHttp]_vars

(* ------------------------------ parseField ----------------------------- *)

\* Fields handed to parseField: the letters and the names of the colours in
\* several letter cases, and strings that name no colour.
FieldInputs ==
  {"w", "r", "g", "b", "y", "o", "W", "R", "G", "B", "Y", "O",
   "white", "red", "green", "blue", "yellow", "orange",
   "White", "Red", "Green", "Blue", "Yellow", "Orange",
   "WHITE", "RED", "GREEN", "BLUE", "YELLOW", "ORANGE", "wHiTe", "oRANGE",
   "", "x", "1", "wh", "ww", "purple", " w"}

ParseField ==
  /\ Len(log) < MaxFields
  /\ \E s \in FieldInputs :
       Returns(Entry("parseField", 0, s, <<>>, <<parseField(s)>>, NoErr), c)

NextParse == ParseField

SpecParse == InitHttp /\ [][NextParse]_vars

(* ------------------- /cube handlers running side by side --------------- *)
(* net/http runs every request's handler in a goroutine of its own.  Each  *)
(* handler holds its Cube in the local variable c; the Faces the cubes     *)
(* point to live in one memory, heap, where readFace's &Face{} takes the   *)
(* next free place.                                                        *)

\* Two requests are under way at most.
Handlers == {1, 2}

ConcForms ==
  {SolvedForm, ScrambledForm, [SolvedForm EXCEPT ![Front] = <<"b", "b", "b", "b", "b", "b", "b", "b">>]}

ConcRuns ==
  {[ok |-> FALSE, out |-> <<>>],
   [ok |-> TRUE, out |-> <<"R", " ", "U", "2", " ", "F", "'", "\n">>],
   [ok |-> TRUE, out |-> <<"L", " ", "X", "\n">>]}

\* A handler that has not been called.
Idle == [pc |-> "idle"]

\* The local variables of a running handler: the request, the cube c (its faces
\* map and its calibs map), and what solve and Apply have come to.
Handler(pc, form, run, faces, calibs, scramble, steps, i, moves, status, body) ==
  [pc |-> pc, form |-> form, run |-> run, faces |-> faces, calibs |-> calibs,
   scramble |-> scramble, steps |-> steps, i |-> i, moves |-> moves,
   status |-> status, body |-> body]

\* The cube of a handler, with the memory its faces point into.
cubeOf(h, mem) == [faces |-> h.faces, pieces |-> mem, calibs |-> h.calibs]

\* The handler goes on with the cube cube2, at pc, with new values of i and moves.
goOn(h, pc, cube2, i, moves) ==
  [h EXCEPT !.pc = pc, !.faces = cube2.faces, !.calibs = cube2.calibs, !.i = i, !.moves = moves]

finish(h, status, body) == [h EXCEPT !.pc = "done", !.status = status, !.body = body]

InitConc ==
  /\ c = NewCube /\ log = <<>> /\ trail = <<>>
  /\ heap = <<>>
  /\ hs = [g \in Handlers |-> Idle]
  /\ ev3 = <<>>

Killed == \E g \in Handlers : hs[g].pc = "killed"

\* A request comes in: c := NewCube().
ConcNew(g) ==
  /\ hs[g].pc = "idle" /\ ~Killed
  /\ \E form \in ConcForms, run \in ConcRuns :
       hs' = [hs EXCEPT ![g] = Handler("new", form, run, NewCube.faces, NewCube.calibs,
                                        <<>>, <<>>, 1, <<>>, 0, <<>>)]
  /\ UNCHANGED <<c, log, trail, heap, ev3>>

\* The loop that reads the six faces, with its early returns.
ConcRead(g) ==
  /\ hs[g].pc = "new"
  /\ heap' = readFaces(cubeOf(hs[g], heap), hs[g].form, 1).c.pieces
  /\ hs' = [hs EXCEPT ![g] =
       IF readFaces(cubeOf(hs[g], heap), hs[g].form, 1).status # 200
         THEN finish(goOn(hs[g], "done", readFaces(cubeOf(hs[g], heap), hs[g].form, 1).c, 1, <<>>),
                     readFaces(cubeOf(hs[g], heap), hs[g].form, 1).status,
                     readFaces(cubeOf(hs[g], heap), hs[g].form, 1).body)
         ELSE goOn(hs[g], "read", readFaces(cubeOf(hs[g], heap), hs[g].form, 1).c, 1, <<>>)]
  /\ UNCHANGED <<c, log, trail, ev3>>

\* solve: the scramble string, the solver, and os.Exit when it fails, which ends
\* every handler of the process.
ConcSolve(g) ==
  /\ hs[g].pc = "read"
  /\ \E scramble \in KociembaScramble(cubeOf(hs[g], heap)) :
       hs' = IF hs[g].run.ok
               THEN [hs EXCEPT ![g] = [@ EXCEPT !.pc = "apply", !.scramble = scramble,
                                                 !.steps = Split(TrimSpace(hs[g].run.out))]]
               ELSE [k \in Handlers |-> [pc |-> "killed"]]
  /\ UNCHANGED <<c, log, trail, heap, ev3>>

\* One pass of Apply's loop over steps[i] (counted from 1).
ConcApply(g) ==
  /\ hs[g].pc = "apply" /\ hs[g].i <= Len(hs[g].steps)
  /\ IF Len(TrimSpace(hs[g].steps[hs[g].i])) = 0
       THEN /\ hs' = [hs EXCEPT ![g].i = @ + 1]
            /\ heap' = heap
       ELSE LET r == Rotate(cubeOf(hs[g], heap), TrimSpace(hs[g].steps[hs[g].i]))
            IN IF r.err # NoErr
                 THEN /\ hs' = [hs EXCEPT ![g] = finish([@ EXCEPT !.moves = <<>>], 200, <<>>)]
                      /\ heap' = heap
                 ELSE /\ hs' = [hs EXCEPT ![g] = goOn(@, "apply", r.c, @.i + 1, @.moves \o r.out)]
                      /\ heap' = r.c.pieces
  /\ UNCHANGED <<c, log, trail, ev3>>

\* Apply has returned its tokens: the response is written.
ConcRespond(g) ==
  /\ hs[g].pc = "apply" /\ hs[g].i > Len(hs[g].steps)
  /\ hs' = [hs EXCEPT ![g] = finish(@, 200, <<"OK: step=%d: %s %v", Len(@.steps), @.steps, @.moves>>)]
  /\ UNCHANGED <<c, log, trail, heap, ev3>>

NextConc ==
  \E g \in Handlers : ConcNew(g) \/ ConcRead(g) \/ ConcSolve(g) \/ ConcApply(g) \/ ConcRespond(g)

SpecConc == InitConc /\ [][NextConc]_vars

(* ----------------------------- the EV3 client -------------------------- *)
(* The client drives two motors.  ev3 holds its package variables (curTurn *)
(* and the steps it was sent), where each motor stands, and every motor    *)
(* command it has given so far.                                            *)

\* Positions of the flip motor: flip's far end and the place it comes back to,
\* holdCube's and releaseCube's.
flipPos == 220

flipRest == 5

holdPos == 110

releasePos == 5

\* turn(n) moves the turn motor by n times as much.
turnUnit == 270

\* waitPosition is content within that much of the target.
tolerance == 5

\* solve ends with turn(8).
lastTurn == 8

flipMotor == "flipMotor"

turnMotor == "turnMotor"

Abs(x) == IF x < 0 THEN -x ELSE x

\* What waitPosition returns when cur is the last position it read.
waitPosition(pos, cur) == Abs(pos - cur) <= tolerance

\* SetPositionSetpoint(pos), Command("run-to-abs-pos"), waitPosition(motor, pos):
\* the motor gets to pos before the timeout, or it stays where it is.
runTo(e, motor, pos, n, reaches) ==
  [e EXCEPT !.at[motor] = IF reaches THEN pos ELSE @,
            !.cmds = Append(@, [motor |-> motor, pos |-> pos, n |-> n, step |-> e.i,
                                ok |-> waitPosition(pos, IF reaches THEN pos ELSE e.at[motor])])]

ev3flip(e, how) == runTo(runTo(e, flipMotor, flipPos, 0, how[1]), flipMotor, flipRest, 0, how[2])

\* A faulty variant that C22 rejects: curTurn follows the motor only when
\* waitPosition reports that the target was reached.
ev3turnIfReached(e, n, reaches) ==
  [runTo(e, turnMotor, e.curTurn + n * turnUnit, n, reaches)
     EXCEPT !.curTurn = IF waitPosition(e.curTurn + n * turnUnit,
                                        IF reaches THEN e.curTurn + n * turnUnit ELSE e.at[turnMotor])
                          THEN e.curTurn + n * turnUnit ELSE @]

ev3turn(e, n, reaches) ==
  [runTo(e, turnMotor, e.curTurn + n * turnUnit, n, reaches)
     EXCEPT !.curTurn = e.curTurn + n * turnUnit]

holdCube(e, reaches) == runTo(e, flipMotor, holdPos, 0, reaches)

releaseCube(e, reaches) == runTo(e, flipMotor, releasePos, 0, reaches)

\* A faulty variant that C35 rejects: the spins let go of the cube before they
\* turn it.
ev3movesReleaseFirst(e, m, how) ==
  CASE m = MoveFlip -> ev3flip(e, how)
    [] m = MoveTurn1 -> ev3turn(e, 1, how[1])
    [] m = MoveTurn2 -> ev3turn(e, 2, how[1])
    [] m = MoveRTurn -> ev3turn(e, -1, how[1])
    [] m = MoveD -> ev3turn(releaseCube(holdCube(e, how[1]), how[3]), -1, how[2])
    [] m = MoveD2 -> ev3turn(releaseCube(holdCube(e, how[1]), how[3]), -2, how[2])
    [] m = Moved -> ev3turn(releaseCube(holdCube(e, how[1]), how[3]), 1, how[2])

\* The table moves of initMoves.
ev3moves(e, m, how) ==
  CASE m = MoveFlip -> ev3flip(e, how)
    [] m = MoveTurn1 -> ev3turn(e, 1, how[1])
    [] m = MoveTurn2 -> ev3turn(e, 2, how[1])
    [] m = MoveRTurn -> ev3turn(e, -1, how[1])
    [] m = MoveD -> releaseCube(ev3turn(holdCube(e, how[1]), -1, how[2]), how[3])
    [] m = MoveD2 -> releaseCube(ev3turn(holdCube(e, how[1]), -2, how[2]), how[3])
    [] m = Moved -> releaseCube(ev3turn(holdCube(e, how[1]), 1, how[2]), how[3])

ev3Known == {MoveFlip, MoveTurn1, MoveTurn2, MoveRTurn, MoveD, MoveD2, Moved}

\* Move(m): an unknown move is logged and skipped.
Move(e, m, how) ==
  [(IF m \in ev3Known THEN ev3moves(e, m, how) ELSE e) EXCEPT !.moved = Append(@, m)]

\* The steps the client is sent.
Ev3Steps ==
  {<<>>, <<MoveFlip, MoveD>>, <<MoveTurn1, MoveFlip, Moved>>, <<MoveTurn2, MoveD2, MoveRTurn>>,
   <<MoveD, "X", MoveTurn1>>, <<MoveRTurn, MoveD>>}

\* How the up to three motor commands of one move end.
Outcomes == [1..3 -> BOOLEAN]

\* The client when solve(steps) is called: connectMotors has reset both motors.
Ev3Start(steps) ==
  [pc |-> "solve", steps |-> steps, i |-> 1, curTurn |-> 0,
   at |-> (flipMotor :> 0) @@ (turnMotor :> 0), cmds |-> <<>>, moved |-> <<>>]

InitEv3 ==
  /\ c = NewCube /\ log = <<>> /\ trail = <<>>
  /\ heap = <<>> /\ hs = <<>>
  /\ ev3 \in {Ev3Start(steps) : steps \in Ev3Steps}

\* One pass of solve's loop: Move(steps[i]).
Ev3Move ==
  /\ ev3.pc = "solve" /\ ev3.i <= Len(ev3.steps)
  /\ \E how \in Outcomes : ev3' = [Move(ev3, ev3.steps[ev3.i], how) EXCEPT !.i = @ + 1]
  /\ UNCHANGED <<c, log, trail, heap, hs>>

\* After the loop: turn(8), and solve returns.
Ev3LastTurn ==
  /\ ev3.pc = "solve" /\ ev3.i > Len(ev3.steps)
  /\ \E reaches \in BOOLEAN : ev3' = [ev3turn(ev3, lastTurn, reaches) EXCEPT !.pc = "done"]
  /\ UNCHANGED <<c, log, trail, heap, hs>>

NextEv3 == Ev3Move \/ Ev3LastTurn

SpecEv3 == InitEv3 /\ [][NextEv3]_vars

(* ---------------------- the helpers on a single Face ------------------- *)
(* rotateClock, rotateCounterclock and invert called on the one Face of a  *)
(* cube that has only its Up face set.                                     *)

\* The most helper calls made one after the other.
MaxGridOps == 4

\* A line with the letter r at place k and w everywhere else.
OneRed(k) == [i \in 1..9 |-> IF i = k THEN "r" ELSE "w"]

\* The lines the Face is read from: the nine with one red facelet, which tell
\* every place from every other, and two with all the colours.
GridLines ==
  {OneRed(k) : k \in 1..9} \cup
  {<<"w", "r", "g", "b", "y", "o", "o", "w", "b">>, <<"g", "g", "y", "r", "b", "w", "o", "y", "r">>}

InitGrid ==
  /\ c \in {SetFace(NewCube, Up, readFace(line)) : line \in GridLines}
  /\ log = <<>>
  /\ trail = <<>>
  /\ Alone

GridClock ==
  /\ Len(log) < MaxGridOps
  /\ Returns(Entry("rotateClock", 0, <<>>, <<>>, <<>>, NoErr), rotateClockAt(c, Up))

GridCounterclock ==
  /\ Len(log) < MaxGridOps
  /\ Returns(Entry("rotateCounterclock", 0, <<>>, <<>>, <<>>, NoErr), rotateCounterclockAt(c, Up))

GridInvert ==
  /\ Len(log) < MaxGridOps
  /\ Returns(Entry("invert", 0, <<>>, <<>>, <<>>, NoErr), invertAt(c, Up))

NextGrid == GridClock \/ GridCounterclock \/ GridInvert

SpecGrid == InitGrid /\ [][NextGrid]_vars

(* ------------------------- spins one after the other ------------------- *)

\* The most spins made one after the other.
MaxSpinOps == 4

SpinD ==
  /\ Len(log) < MaxSpinOps
  /\ Returns(Entry("D", 0, <<>>, <<>>, <<>>, NoErr), D(c))

SpinD2 ==
  /\ Len(log) < MaxSpinOps
  /\ Returns(Entry("D2", 0, <<>>, <<>>, <<>>, NoErr), D2(c))

Spind ==
  /\ Len(log) < MaxSpinOps
  /\ Returns(Entry("d", 0, <<>>, <<>>, <<>>, NoErr), d(c))

NextSpin == SpinD \/ SpinD2 \/ Spind

SpecSpin == Init /\ [][NextSpin]_vars

(* --------------- moves on a cube that has been reoriented --------------- *)

\* The most Rotate calls made one after the other.
MaxMoves == 2

\* The Rotate calls made so far.
Rotations == Cardinality({k \in 1..Len(log) : log[k].op = "Rotate"})

\* The cube is flipped or turned before the first move.
MovesFlip ==
  /\ log = <<>>
  /\ Returns(Entry("flip", 0, <<>>, <<>>, <<>>, NoErr), flip(c))

MovesTurn ==
  /\ log = <<>>
  /\ \E n \in 1..3 : Returns(Entry("turn", n, <<>>, <<>>, <<>>, NoErr), turn(c, n))

\* More tokens that are no move: two suffixes, a suffix alone, a digit for the
\* face, white space that nobody trimmed, a lower-case suffix letter.
OddTokens == {<<"U", "2", "'">>, <<"'">>, <<"2", "U">>, <<" ", "U">>, <<"D", " ">>, <<"F", "i">>}

MovesRotate ==
  /\ Rotations < MaxMoves
  /\ \E m \in RotateInputs \cup OddTokens :
       Returns(Entry("Rotate", 0, m, <<>>, Rotate(c, m).out, Rotate(c, m).err), Rotate(c, m).c)

NextMoves == MovesFlip \/ MovesTurn \/ MovesRotate

SpecMoves == Init /\ [][NextMoves]_vars

(* ------------------------ waitPosition, poll by poll -------------------- *)
(* Durations are counted in milliseconds.  ev3 holds the arguments and the *)
(* local variables n and cur of one call, and the polls it has made.       *)

\* defaultTimeout = 1500 * time.Millisecond, and the 50 * time.Millisecond of
\* the loop.
defaultTimeout == 1500

pollSleep == 50

\* Duration.Microseconds() and Duration.Milliseconds() of a duration of ms
\* milliseconds.
Microseconds(ms) == ms * 1000

Milliseconds(ms) == ms

\* The timeouts waitPosition is called with: the default, and a short one.
Timeouts == {defaultTimeout, 2 * pollSleep}

\* What motor.Position() can read while the motor is asked to go to pos: far
\* away, six short of it, five short of it.
Reads(pos) == {0, pos - tolerance - 1, pos - tolerance}

WaitCalled(pos, timeout) ==
  [pc |-> "called", pos |-> pos, timeout |-> timeout, n |-> 0, cur |-> 0, polls |-> 0, ok |-> FALSE]

InitWait ==
  /\ c = NewCube /\ log = <<>> /\ trail = <<>>
  /\ heap = <<>> /\ hs = <<>>
  /\ ev3 \in {WaitCalled(turnUnit, timeout) : timeout \in Timeouts}

\* The first motor.Position() fails: waitPosition returns false.
WaitNoPosition ==
  /\ ev3.pc = "called"
  /\ ev3' = [ev3 EXCEPT !.pc = "returned", !.ok = FALSE]
  /\ UNCHANGED <<c, log, trail, heap, hs>>

\* cur is read and n := timeout.Microseconds().
WaitStart ==
  /\ ev3.pc = "called"
  /\ \E cur \in Reads(ev3.pos) :
       ev3' = [ev3 EXCEPT !.pc = "loop", !.cur = cur, !.n = Microseconds(ev3.timeout)]
  /\ UNCHANGED <<c, log, trail, heap, hs>>

\* One pass of the loop: Sleep, n -= (50 * time.Millisecond).Milliseconds(), and
\* the position read again.
WaitPoll ==
  /\ ev3.pc = "loop"
  /\ ev3.n > 0 /\ Abs(ev3.pos - ev3.cur) > tolerance
  /\ \E cur \in Reads(ev3.pos) :
       ev3' = [ev3 EXCEPT !.n = @ - Milliseconds(pollSleep), !.polls = @ + 1, !.cur = cur]
  /\ UNCHANGED <<c, log, trail, heap, hs>>

\* The loop is left: true when cur is within 5 of pos, false otherwise.
WaitReturn ==
  /\ ev3.pc = "loop"
  /\ ~(ev3.n > 0 /\ Abs(ev3.pos - ev3.cur) > tolerance)
  /\ ev3' = [ev3 EXCEPT !.pc = "returned", !.ok = waitPosition(ev3.pos, ev3.cur)]
  /\ UNCHANGED <<c, log, trail, heap, hs>>

NextWait == WaitNoPosition \/ WaitStart \/ WaitPoll \/ WaitReturn

SpecWait == InitWait /\ [][NextWait]_vars

(* ------------------ the EV3 client asking for the steps ---------------- *)
(* sendRequest: the GET, which the server's httpCube answers, and the      *)
(* reading of the response.  ev3 holds what sendRequest returns.           *)

\* The decimal digits of a natural number, as %d prints them.
RECURSIVE Decimal(_)
Decimal(n) ==
  IF n < 10 THEN <<<<"0", "1", "2", "3", "4", "5", "6", "7", "8", "9">>[n + 1]>>
  ELSE Append(Decimal(n \div 10), Decimal(n % 10)[1])

\* The characters of the actuation tokens.
tokenChars(t) ==
  CASE t = MoveFlip -> <<"f", "l", "i", "p">>
    [] t = MoveTurn1 -> <<"t", "u", "r", "n">>
    [] t = MoveTurn2 -> <<"t", "u", "r", "n", "2">>
    [] t = MoveRTurn -> <<"t", "u", "r", "n", "'">>
    [] t = MoveD -> <<"D">>
    [] t = MoveD2 -> <<"D", "2">>
    [] t = Moved -> <<"D", "'">>

\* strings.Join(list, " "), which is also how %v writes the elements of a slice
\* between its brackets.
RECURSIVE Join(_)
Join(list) ==
  IF list = <<>> THEN <<>>
  ELSE IF Len(list) = 1 THEN list[1]
  ELSE list[1] \o <<" ">> \o Join(Tail(list))

\* The bytes httpCube writes for a request: the text of a rejection, the line
\* OK: step=%d: %s %v, or nothing when Apply failed.
responseText(req) ==
  IF req.body = <<>> THEN <<>>
  ELSE IF req.body[1] = badLength(Up)[1]
    THEN <<"f", "a", "c", "e", " ">> \o req.body[2] \o
         <<" ", "m", "u", "s", "t", " ", "c", "o", "n", "t", "a", "i", "n", " ", "o", "n", "l", "y", " ", "[", "w", "r", "b", "o", "y", "g", "]", ",", " ", "a", "n", "d", " ", "m", "u", "s", "t", " ", "b", "e", " ", "9", " ", "c", "h", "a", "r", "s", ".">>
  ELSE IF req.body[1] = unknownColor(Up, <<>>, "x")[1]
    THEN <<"E", "R", "R", "O", "R", ":", " ", "r", "e", "a", "d", "F", "a", "c", "e", "(">> \o
         req.body[2] \o <<",", " ">> \o req.body[3] \o
         <<")", " ", "e", "r", "r", "o", "r", ":", " ", "u", "n", "k", "n", "o", "w", "n", " ", "c", "o", "l", "o", "r", " ", "n", "a", "m", "e", ":", " ">> \o
         req.body[4]
  ELSE <<"O", "K", ":", " ", "s", "t", "e", "p", "=">> \o Decimal(req.body[2]) \o <<":", " ">> \o
       Join(req.body[3]) \o <<" ", "[">> \o
       Join([k \in 1..Len(req.body[4]) |-> tokenChars(req.body[4][k])]) \o <<"]">>

\* bufio.Scanner's lines of a text.
RECURSIVE scanLines(_)
scanLines(text) ==
  IF text = <<>> THEN <<>>
  ELSE IF \A k \in 1..Len(text) : text[k] # "\n" THEN <<text>>
  ELSE LET k == CHOOSE i \in 1..Len(text) : text[i] = "\n" /\ \A j \in 1..(i - 1) : text[j] # "\n"
       IN <<SubSeq(text, 1, k - 1)>> \o scanLines(SubSeq(text, k + 1, Len(text)))

\* re.FindStringSubmatch(line) for ^OK: .*\[(.*)\]$ : the line begins with OK: ,
\* ends with ] and has a [ in between; the group is what stands between the
\* last such [ and the closing ].
opens(line) == {k \in 5..(Len(line) - 1) : line[k] = "["}

matches(line) ==
  /\ Len(line) >= 6 /\ SubSeq(line, 1, 4) = <<"O", "K", ":", " ">>
  /\ line[Len(line)] = "]" /\ opens(line) # {}

submatch(line) ==
  SubSeq(line, (CHOOSE k \in opens(line) : \A j \in opens(line) : j <= k) + 1, Len(line) - 1)

\* The loop over the first five lines: body is the group of the last line that
\* matched, or the empty string.
RECURSIVE bodyOf(_, _, _)
bodyOf(lines, i, body) ==
  IF i > Len(lines) \/ i > 5 THEN body
  ELSE bodyOf(lines, i + 1, IF matches(lines[i]) THEN submatch(lines[i]) ELSE body)

getError == <<"GET error">>

solutionNotFound == <<"solution not found">>

\* What sendRequest returns for the run of httpCube that answered its GET; the
\* GET fails when the server process has ended.
sendRequest(req) ==
  IF req.exit THEN [pc |-> "sent", steps |-> <<>>, err |-> getError]
  ELSE IF bodyOf(scanLines(responseText(req)), 1, <<>>) = <<>>
    THEN [pc |-> "sent", steps |-> <<>>, err |-> solutionNotFound]
  ELSE [pc |-> "sent", steps |-> Split(bodyOf(scanLines(responseText(req)), 1, <<>>)), err |-> NoErr]

\* The runs httpCube can make of a request.
httpCubeRuns(form, run) ==
  IF readFaces(NewCube, form, 1).status # 200
    THEN {rejected(form, readFaces(NewCube, form, 1))}
    ELSE {solved(form, readFaces(NewCube, form, 1).c, scramble, run) :
            scramble \in KociembaScramble(readFaces(NewCube, form, 1).c)}

\* A client is started and sends its request to the server.
SendRequest ==
  /\ ~Exited /\ Len(log) < MaxReqs
  /\ \E form \in HttpForms, run \in SolverRuns :
       \E req \in httpCubeRuns(form, run) :
         /\ c' = req.left
         /\ log' = Append(log, req)
         /\ trail' = Append(trail, req.built)
         /\ ev3' = sendRequest(req)
  /\ UNCHANGED <<heap, hs>>

NextClient == SendRequest

SpecClient == InitHttp /\ [][NextClient]_vars

(* --------------------------- reading the log --------------------------- *)

\* The cube at construction.
start == IF trail = <<>> THEN c ELSE trail[1]

last == log[Len(log)]

\* The cube before the last call, and before the last k calls.
prev == trail[Len(trail)]

before(k) == trail[Len(trail) - k + 1]

\* The colour at index i of the grid at physical label x.
at(cube, x, i) == cube.pieces[cube.faces[x]][i]

TypeOK ==
  /\ DOMAIN c.faces = Labels
  /\ DOMAIN c.calibs = Labels
  /\ \A x \in Labels : c.faces[x] \in DOMAIN c.pieces
  /\ \A o \in DOMAIN c.pieces : \A i \in 0..8 : c.pieces[o][i] \in White..Orange
  /\ Len(log) = Len(trail)

(* ---------------- the reference cube: fixed-frame geometry ------------- *)
(* A facelet is a pair <<label, index>>.  In the unfolded layout that Print *)
(* draws and the solver reads (Up above Front; Left, Front, Right, Back in *)
(* a row; Down below Front; every grid row-major as seen from outside) a   *)
(* facelet sits at a point of {-1,0,1}^3, x to the right, y up, z to the   *)
(* front, on the face its normal names.                                    *)

Stickers == Labels \X (0..8)

\* The function f itself; written so that TLC tabulates f once instead of
\* evaluating its defining expression at every application.
Table(f) == f @@ <<>>

normal(x) ==
  CASE x = Up -> <<0, 1, 0>>
    [] x = Down -> <<0, -1, 0>>
    [] x = Front -> <<0, 0, 1>>
    [] x = Back -> <<0, 0, -1>>
    [] x = Right -> <<1, 0, 0>>
    [] x = Left -> <<-1, 0, 0>>

pos(x, i) ==
  LET r == i \div 3
      k == i % 3
  IN CASE x = Up -> <<k - 1, 1, r - 1>>
       [] x = Down -> <<k - 1, -1, 1 - r>>
       [] x = Front -> <<k - 1, 1 - r, 1>>
       [] x = Back -> <<1 - k, 1 - r, -1>>
       [] x = Left -> <<-1, 1 - r, k - 1>>
       [] x = Right -> <<1, 1 - r, 1 - k>>

\* The facelet at point p of the face with normal n.
stickerAt(p, n) ==
  CHOOSE s \in Stickers : normal(s[1]) = n /\ pos(s[1], s[2]) = p

\* Quarter rotations of space, clockwise as seen from the tip of the axis.
cwX(v) == <<v[1], v[3], -v[2]>>

cwY(v) == <<-v[3], v[2], v[1]>>

cwZ(v) == <<v[2], -v[1], v[3]>>

ccwX(v) == cwX(cwX(cwX(v)))

ccwY(v) == cwY(cwY(cwY(v)))

ccwZ(v) == cwZ(cwZ(cwZ(v)))

\* Where the facelet that a clockwise quarter turn of face x (seen from outside
\* that face) brings to p, n comes from.
from(x, v) ==
  CASE x = Up -> ccwY(v)
    [] x = Down -> cwY(v)
    [] x = Right -> ccwX(v)
    [] x = Left -> cwX(v)
    [] x = Front -> ccwZ(v)
    [] x = Back -> cwZ(v)

dot(u, v) == u[1] * v[1] + u[2] * v[2] + u[3] * v[3]

\* The facelets of face x's layer are the nine of x and the twelve around it.
inLayer(x, s) == dot(pos(s[1], s[2]), normal(x)) = 1

\* For each face, where each facelet's colour comes from in a clockwise quarter
\* turn of that face in the fixed frame.
RefTurnSource ==
  Table([x \in Labels |->
    Table([s \in Stickers |->
      IF inLayer(x, s)
        THEN stickerAt(from(x, pos(s[1], s[2])), from(x, normal(s[1])))
        ELSE s])])

\* The whole cube rolled so that Front goes to Up (a flip), and turned so that
\* Front goes to Left (a turn).
RefFlipSource ==
  Table([s \in Stickers |-> stickerAt(ccwX(pos(s[1], s[2])), ccwX(normal(s[1])))])

RefTurnCubeSource ==
  Table([s \in Stickers |-> stickerAt(ccwY(pos(s[1], s[2])), ccwY(normal(s[1])))])

Permute(col, source) == Table([s \in Stickers |-> col[source[s]]])

\* The colours of a cube, facelet by facelet.
Colours(cube) == Table([s \in Stickers |-> at(cube, s[1], s[2])])

\* n clockwise quarter turns of face x on a colouring.
RECURSIVE RefTurn(_, _, _)
RefTurn(col, x, n) ==
  IF n <= 0 THEN col ELSE RefTurn(Permute(col, RefTurnSource[x]), x, n - 1)

\* The quarter turns a well-formed move stands for.
quarters(m) == IF Len(m) = 1 THEN 1 ELSE IF m[2] = "2" THEN 2 ELSE 3

\* The standard face turns of a sequence of moves, in order.
RECURSIVE RefMoves(_, _)
RefMoves(col, ms) ==
  IF ms = <<>> THEN col
  ELSE RefMoves(RefTurn(col, Head(ms)[1], quarters(Head(ms))), Tail(ms))

\* The whole-cube reorientations of a token stream, in order; spins are skipped.
RECURSIVE RefOrient(_, _)
RefOrient(col, toks) ==
  IF toks = <<>> THEN col
  ELSE LET t == Head(toks)
           n == CASE t = "turn" -> 1 [] t = "turn2" -> 2 [] t = "turn'" -> 3 [] OTHER -> 0
           col1 == IF t = "flip" THEN Permute(col, RefFlipSource) ELSE col
           col2 == IF n >= 1 THEN Permute(col1, RefTurnCubeSource) ELSE col1
           col3 == IF n >= 2 THEN Permute(col2, RefTurnCubeSource) ELSE col2
           col4 == IF n >= 3 THEN Permute(col3, RefTurnCubeSource) ELSE col3
       IN RefOrient(col4, Tail(toks))

(* ------------------------- what the log holds -------------------------- *)

Scrambled == readCube(NewCube, ScrambledForm, 1)

SolvedCube == readCube(NewCube, SolvedForm, 1)

\* Every grid of the cube is of one colour.
Monochrome(cube) == \A x \in Labels : \A i \in 0..8 : at(cube, x, i) = at(cube, x, 4)

RotateOK(e) == e.op = "Rotate" /\ e.err = NoErr

ApplyOK(e) == e.op = "Apply" /\ e.err = NoErr

\* The non-empty tokens of a list, trimmed: the moves Apply hands to Rotate.
RECURSIVE Trimmed(_)
Trimmed(ms) ==
  IF ms = <<>> THEN <<>>
  ELSE IF TrimSpace(Head(ms)) = <<>> THEN Trimmed(Tail(ms))
  ELSE <<TrimSpace(Head(ms))>> \o Trimmed(Tail(ms))

\* The moves a call applied, and the reorientations and spins it performed, as
\* actuation tokens.
movesOf(e) ==
  CASE e.op = "Rotate" -> <<e.m>>
    [] e.op = "Apply" -> Trimmed(e.ms)
    [] OTHER -> <<>>

tokensOf(e) ==
  CASE e.op = "flip" -> <<"flip">>
    [] e.op = "turn" -> Repeat(<<"turn">>, e.n)
    [] OTHER -> e.out

RECURSIVE AllMoves(_)
AllMoves(l) == IF l = <<>> THEN <<>> ELSE movesOf(Head(l)) \o AllMoves(Tail(l))

RECURSIVE AllTokens(_)
AllTokens(l) == IF l = <<>> THEN <<>> ELSE tokensOf(Head(l)) \o AllTokens(Tail(l))

\* Only moves that succeeded and whole-cube reorientations were called.
MovesOnly ==
  \A k \in 1..Len(log) : RotateOK(log[k]) \/ ApplyOK(log[k]) \/ log[k].op \in {"flip", "turn"}

SpinTokens == {"D", "D2", "D'"}

ReorientTokens == {"flip", "turn", "turn2", "turn'"}

(* ------------------------------- claims -------------------------------- *)

\* C1: after any sequence of valid moves (through Rotate or Apply, with flips and
\* turns of the whole cube in between) from a start cube with identity
\* calibration, the simulated cube is the reference cube -- the start with the
\* standard fixed-frame face turns of those moves applied, each move X turning
\* the layer of face X clockwise as seen from X -- rolled and turned by the
\* reorientations performed so far.
C1_RefinesFixedFrame ==
  MovesOnly =>
    Colours(c) = RefOrient(RefMoves(Colours(start), AllMoves(log)), AllTokens(log))

\* Two moves on different side faces of the scrambled cube have been applied.
C1_Witness ==
  /\ Len(log) = 2
  /\ RotateOK(log[1]) /\ log[1].m = <<"R">>
  /\ RotateOK(log[2]) /\ log[2].m = <<"F", "'">>
  /\ start = Scrambled
  /\ Len(AllTokens(log)) = 6

\* C2: in every reachable state, for each virtual label v, the grid at the
\* physical slot calibs[v] has the centre colour the grid at slot v had at
\* construction.
C2_CalibsTrackCentres ==
  \A v \in Labels : at(c, c.calibs[v], 4) = at(start, v, 4)

\* A move and then a flip have left a calibration that is not the identity.
C2_Witness ==
  /\ Len(log) = 2
  /\ RotateOK(log[1]) /\ log[1].m = <<"L", "2">>
  /\ log[2].op = "flip"
  /\ \A v \in Labels : c.calibs[v] # v

\* C3: when Rotate runs the move-table entry keyed by physical slot P, the grid
\* that was at slot P is at slot Down afterwards, for every state and suffix.
C3_PrefixBringsSlotDown ==
  (log # <<>> /\ RotateOK(last)) =>
    c.faces[Down] = prev.faces[Calib(prev, last.m)[1]]

\* The entry keyed by Right has run on a cube whose calibration was not the
\* identity, for a move with suffix 2.
C3_Witness ==
  /\ Len(log) = 2
  /\ RotateOK(last)
  /\ Calib(prev, last.m) = <<"R", "2">>
  /\ last.m # <<"R", "2">>
  /\ c.faces[Down] = prev.faces[Right]

\* C4: from a solved cube, R U R' U' applied six times in a row through Apply
\* leaves a solved cube.
C4_SixCommutatorsSolve ==
  (log # <<>> /\ last.op = "Apply" /\ last.ms = SixCommutators /\ Monochrome(start)) =>
    (last.err = NoErr /\ Monochrome(c))

\* The 24 moves have been applied to the solved cube, each with its spin.
C4_Witness ==
  /\ log # <<>> /\ ApplyOK(last) /\ last.ms = SixCommutators
  /\ start = SolvedCube
  /\ Cardinality({k \in 1..Len(last.out) : last.out[k] \in SpinTokens}) = 24

\* C5: from a solved cube, any one of the twelve quarter-turn moves applied four
\* times in succession (four Rotate calls, made by Apply) leaves a solved cube.
C5_FourQuarterTurnsSolve ==
  (log # <<>> /\ last.op = "Apply" /\ last.ms \in FourTimes /\ Monochrome(start)) =>
    (last.err = NoErr /\ Monochrome(c))

\* R' has been applied four times to the solved cube, which it left re-oriented.
C5_Witness ==
  /\ log # <<>> /\ ApplyOK(last) /\ last.ms = Repeat(<< <<"R", "'">> >>, 4)
  /\ start = SolvedCube
  /\ last.out = <<"turn'", "flip", "D'", "D'", "D'", "D'">>
  /\ c.calibs["R"] = Down

\* The actuation tokens replayed as primitives on a cube: flip is flip(), turn is
\* turn(1), turn2 is turn(2), turn' is turn(3), D is one spin of the Down layer,
\* D2 two, D' three.
replayOne(cube, t) ==
  CASE t = "flip" -> flip(cube)
    [] t = "turn" -> turn(cube, 1)
    [] t = "turn2" -> turn(cube, 2)
    [] t = "turn'" -> turn(cube, 3)
    [] t = "D" -> D(cube)
    [] t = "D2" -> D(D(cube))
    [] t = "D'" -> D(D(D(cube)))

RECURSIVE Replay(_, _)
Replay(cube, toks) ==
  IF toks = <<>> THEN cube ELSE Replay(replayOne(cube, Head(toks)), Tail(toks))

\* The tokens of a stream that are not spins.
RECURSIVE Reorientations(_)
Reorientations(toks) ==
  IF toks = <<>> THEN <<>>
  ELSE IF Head(toks) \in SpinTokens THEN Reorientations(Tail(toks))
  ELSE <<Head(toks)>> \o Reorientations(Tail(toks))

\* The last two calls were Rotate(X) and Rotate(X') for one face X.
MoveThenInverse ==
  /\ Len(log) >= 2
  /\ RotateOK(log[Len(log) - 1]) /\ Len(log[Len(log) - 1].m) = 1
  /\ RotateOK(last) /\ last.m = <<log[Len(log) - 1].m[1], "'">>

SameFacesMap(a, b) ==
  \A x \in Labels : a.faces[x] = b.faces[x] /\ a.pieces[a.faces[x]] = b.pieces[b.faces[x]]

\* C6 as claimed: Rotate(X) and then Rotate(X') leave the faces map (the grid at
\* each physical label, all 54 facelets) as it was before the two moves.
C6_FacesMapRestored == MoveThenInverse => SameFacesMap(c, before(2))

\* C6, amended: Rotate(X) and then Rotate(X') leave faces, facelets and calibs as
\* the reorientations of Rotate(X) alone (its flips and turns, no spin) make them
\* from the cube before the two moves; the faces map is as it was before exactly
\* when calibs[X] was Down before.
C6_RestoredUpToReorientation ==
  MoveThenInverse =>
    /\ c = Replay(before(2), Reorientations(log[Len(log) - 1].out))
    /\ SameFacesMap(c, before(2)) <=> before(2).calibs[last.m[1]] = Down

\* F and F' have been applied to the scrambled cube, which stays turned and flipped.
C6_Witness ==
  /\ MoveThenInverse
  /\ last.m = <<"F", "'">>
  /\ start = Scrambled
  /\ log[1].out = <<"turn2", "flip", "D">> /\ last.out = <<"D'">>
  /\ ~SameFacesMap(c, start)

\* The last k calls were all flip(), or all turn(1).
LastWere(k, op, n) ==
  /\ Len(log) >= k
  /\ \A j \in (Len(log) - k + 1)..Len(log) : log[j].op = op /\ log[j].n = n

\* C7: four consecutive flip() calls, and four consecutive turn(1) calls, restore
\* the grid at each physical label, all 54 facelet colours and the calibration
\* map to what they were before the four calls.
C7_FourFlipsOrTurnsRestore ==
  /\ LastWere(4, "flip", 0) => c = before(4)
  /\ LastWere(4, "turn", 1) => c = before(4)

\* Four flips have been made on a scrambled cube that a spin had changed first:
\* no fewer than four restore it.
C7_Witness ==
  /\ Len(log) = 5 /\ log[1].op = "D"
  /\ LastWere(4, "flip", 0)
  /\ start = Scrambled
  /\ \A k \in 1..3 : trail[Len(trail) - k + 1] # before(4)
  /\ c = before(4) /\ c # start

\* The same for four turn(1) calls, after a flip.
C7_WitnessTurns ==
  /\ Len(log) = 5 /\ log[1].op = "flip"
  /\ LastWere(4, "turn", 1)
  /\ start = Scrambled
  /\ \A k \in 1..3 : trail[Len(trail) - k + 1] # before(4)
  /\ c = before(4) /\ c # start

\* C8: after any sequence of flip() and turn(n) calls on a cube made by NewCube,
\* calibs is a bijection on the six labels: every label is a key, and every label
\* is the value of exactly one key.
C8_CalibsBijection ==
  /\ DOMAIN c.calibs = Labels
  /\ \A x \in Labels : Cardinality({v \in Labels : c.calibs[v] = x}) = 1

\* Flips and turns have left a calibration that moves every label.
C8_Witness ==
  /\ Len(log) >= 3
  /\ \A k \in 1..Len(log) : log[k].op \in {"flip", "turn"}
  /\ \E k \in 1..Len(log) : log[k].op = "flip"
  /\ \E k \in 1..Len(log) : log[k].op = "turn" /\ log[k].n = 3
  /\ \A v \in Labels : c.calibs[v] # v

\* The spin token that a move's suffix asks for.
spinFor(m) == IF Len(m) = 1 THEN "D" ELSE IF m[2] = "2" THEN "D2" ELSE "D'"

\* C9: the tokens Rotate returns, replayed as primitives on a copy of the cube
\* before the move, give the faces, facelets and calibs Rotate left; the last
\* token is the spin of the move's suffix (none: D, 2: D2, ': D') and the tokens
\* before it are reorientations.
C9_TokensReplayRotate ==
  (log # <<>> /\ RotateOK(last)) =>
    /\ Replay(prev, last.out) = c
    /\ last.out # <<>>
    /\ last.out[Len(last.out)] = spinFor(last.m)
    /\ \A k \in 1..(Len(last.out) - 1) : last.out[k] \in ReorientTokens

\* A half turn of a face that sits at the physical Front has been made.
C9_Witness ==
  /\ Len(log) = 2
  /\ RotateOK(last) /\ Len(last.m) = 2 /\ last.m[2] = "2"
  /\ last.out = <<"turn2", "flip", "D2">>
  /\ start = Scrambled
  /\ c # prev

\* The number of moves (each up to two reorientations and then one spin) a token
\* stream is made of, or -1 if it is not made of such groups; k counts the
\* reorientations since the last spin and n the spins so far.
RECURSIVE Groups(_, _, _)
Groups(toks, k, n) ==
  IF toks = <<>> THEN (IF k = 0 THEN n ELSE -1)
  ELSE IF Head(toks) \in SpinTokens THEN Groups(Tail(toks), 0, n + 1)
  ELSE IF Head(toks) \in ReorientTokens /\ k < 2 THEN Groups(Tail(toks), k + 1, n)
  ELSE -1

\* C10: every token Apply returns is one of flip, turn, turn2, turn', D, D2, D';
\* each of the n moves applied gives at most two reorientation tokens and then
\* exactly one spin token, so that the stream has between n and 3n tokens, n of
\* them spins.
C10_ApplyStreamShape ==
  (log # <<>> /\ last.op = "Apply") =>
    LET n == IF last.err = NoErr THEN Len(Trimmed(last.ms)) ELSE 0
    IN /\ \A k \in 1..Len(last.out) : last.out[k] \in ReorientTokens \cup SpinTokens
       /\ Groups(last.out, 0, 0) = n
       /\ n <= Len(last.out) /\ Len(last.out) <= 3 * n
       /\ Cardinality({k \in 1..Len(last.out) : last.out[k] \in SpinTokens}) = n

\* Apply has applied two moves of three tokens each.
C10_Witness ==
  /\ log # <<>> /\ ApplyOK(last)
  /\ Len(Trimmed(last.ms)) = 2
  /\ Len(last.out) = 6

\* Rotate called on the moves of a list one at a time, in order: the cube left
\* and the tokens returned, one list after the other.
RECURSIVE RotateInOrder(_, _)
RotateInOrder(cube, ms) ==
  IF ms = <<>> THEN [c |-> cube, out |-> <<>>]
  ELSE LET r == Rotate(cube, Head(ms))
           rest == RotateInOrder(r.c, Tail(ms))
       IN [c |-> rest.c, out |-> r.out \o rest.out]

\* C11: Apply consumes its tokens in list order: the list it returns is the
\* concatenation, in input order, of the lists Rotate returns for the non-empty
\* tokens, each move calibrated against the state the earlier moves left, and
\* the cube it leaves is the one that Rotate, called on the tokens one at a time
\* in that order, leaves.
C11_ApplyInListOrder ==
  (log # <<>> /\ ApplyOK(last)) =>
    /\ last.out = RotateInOrder(prev, Trimmed(last.ms)).out
    /\ c = RotateInOrder(prev, Trimmed(last.ms)).c

\* Apply has applied two moves on the scrambled cube whose order matters, the
\* second one calibrated by what the first left.
C11_Witness ==
  /\ log # <<>> /\ ApplyOK(last)
  /\ prev = Scrambled
  /\ Len(Trimmed(last.ms)) = 2
  /\ RotateInOrder(prev, <<Trimmed(last.ms)[2], Trimmed(last.ms)[1]>>).c # c
  /\ Rotate(prev, Trimmed(last.ms)[2]).out # Rotate(Rotate(prev, Trimmed(last.ms)[1]).c, Trimmed(last.ms)[2]).out

\* A token Rotate has no move for, once trimmed.
Malformed(tok) == TrimSpace(tok) # <<>> /\ TrimSpace(tok) \notin ValidMoves

HasMalformed(ms) == \E i \in 1..Len(ms) : Malformed(ms[i])

\* The place in the list (counted from 1) of the first malformed token.
FirstMalformed(ms) ==
  CHOOSE i \in 1..Len(ms) : Malformed(ms[i]) /\ \A j \in 1..(i - 1) : ~Malformed(ms[j])

\* The characters t occur one after the other somewhere in s.
Within(t, s) == \E k \in 0..(Len(s) - Len(t)) : SubSeq(s, k + 1, k + Len(t)) = t

\* An error message, built from fixed text and the values formatted into it,
\* shows the value whose characters are v.
Shows(err, v) == \E k \in 2..Len(err) : Within(v, err[k])

ApplyFailed == log # <<>> /\ last.op = "Apply" /\ last.err # NoErr

\* What Apply does at a malformed token besides reporting it: it fails exactly
\* when the list has one, no token after the first malformed one is applied,
\* the moves before it stay applied, and the error shows the token's text.
ApplyStopsWithoutRollback ==
  /\ (log # <<>> /\ last.op = "Apply") => (HasMalformed(last.ms) <=> last.err # NoErr)
  /\ ApplyFailed =>
       /\ c = RotateInOrder(prev, Trimmed(SubSeq(last.ms, 1, FirstMalformed(last.ms) - 1))).c
       /\ Shows(last.err, TrimSpace(last.ms[FirstMalformed(last.ms)]))

\* C12: when the move list holds a malformed token, Apply stops at the first
\* such token: no later token is applied, the moves before it stay applied, and
\* the error it reports carries both the index of that token (counted from 0
\* or from 1) and its text.
C12_ErrorCarriesIndexAndText ==
  /\ ApplyStopsWithoutRollback
  /\ ApplyFailed =>
       \/ Shows(last.err, Decimal(FirstMalformed(last.ms)))
       \/ Shows(last.err, Decimal(FirstMalformed(last.ms) - 1))

\* A list that is empty or holds only empty and white-space tokens.
AllBlank(ms) == \A i \in 1..Len(ms) : \A k \in 1..Len(ms[i]) : ms[i][k] \in {" ", "\t", "\n", "\r"}

\* C13: Apply on an empty move list, or on a list made only of empty or
\* white-space tokens, leaves faces and calibs unchanged and returns an empty
\* actuation list and no error.
C13_BlankListChangesNothing ==
  (log # <<>> /\ last.op = "Apply" /\ AllBlank(last.ms)) =>
    /\ c = prev
    /\ last.out = <<>>
    /\ last.err = NoErr

\* Apply has been given an empty token and a token of white space.
C13_Witness ==
  /\ log # <<>> /\ last.op = "Apply" /\ AllBlank(last.ms)
  /\ Len(last.ms) = 2
  /\ \E i \in 1..2 : last.ms[i] = <<>>
  /\ \E i \in 1..2 : last.ms[i] # <<>>
  /\ c = prev /\ last.out = <<>> /\ last.err = NoErr

\* Apply has been given the empty list.
C13_WitnessEmpty ==
  /\ log # <<>> /\ last.op = "Apply" /\ last.ms = <<>>
  /\ c = prev /\ last.out = <<>> /\ last.err = NoErr

\* The six centres are of six colours.
DistinctCentres(cube) == \A x, y \in Labels : at(cube, x, 4) = at(cube, y, 4) => x = y

IdentityCalibs(cube) == \A v \in Labels : cube.calibs[v] = v

\* The string the solver reads as the solved cube.
SolvedString == nine("U") \o nine("R") \o nine("F") \o nine("D") \o nine("L") \o nine("B")

\* C14: for every solved cube with identity calibration (six monochrome grids of
\* six distinct colours) KociembaScramble returns nine U, nine R, nine F, nine D,
\* nine L and nine B, whichever colour sits on which face.
C14_SolvedCubeEncodesSolved ==
  (Encoded /\ Monochrome(prev) /\ DistinctCentres(prev) /\ IdentityCalibs(prev)) =>
    last.out = SolvedString

\* The string of a solved cube whose Up is not white has been asked for, after
\* reorientations that brought the calibration back to the identity.
C14_Witness ==
  /\ Encoded /\ Len(log) = 3
  /\ Monochrome(prev) /\ DistinctCentres(prev) /\ IdentityCalibs(prev)
  /\ at(prev, Up, 4) # White
  /\ last.out = SolvedString

\* The physical slot whose grid has centre colour col, and the virtual face that
\* the calibration says this slot hosts: the v with calibs[v] = slot.
slotOf(cube, col) == CHOOSE x \in Labels : at(cube, x, 4) = col

virtualAt(cube, x) == CHOOSE v \in Labels : cube.calibs[v] = x

\* The colour of the facelet that the k-th character of the scramble stands for.
colourAt(cube, k) == at(cube, scrambleOrder[((k - 1) \div 9) + 1], (k - 1) % 9)

\* What the code emits: calibs applied to the physical slot.
ScrambleAppliesCalibsToSlot ==
  (Encoded /\ DistinctCentres(prev)) =>
    \A k \in 1..54 : last.out[k] = prev.calibs[slotOf(prev, colourAt(prev, k))]

\* C15: in every reachable state, calibs non-identity included, KociembaScramble
\* emits for each facelet the letter of the virtual face whose grid has the
\* facelet's colour at its centre: the label v with calibs[v] equal to the
\* physical slot holding that grid (the inverse of the calibration map applied
\* to the slot), not the physical label and not calibs applied to it.
C15_ScrambleUsesInverseCalibs ==
  (Encoded /\ DistinctCentres(prev)) =>
    \A k \in 1..54 : last.out[k] = virtualAt(prev, slotOf(prev, colourAt(prev, k)))

\* The letters of the six colours, in either case.
ColourLetters == {"w", "r", "g", "b", "y", "o", "W", "R", "G", "B", "Y", "O"}

\* A request whose six form values pass the handler's parsing: 9 letters each.
WellFormed(form) ==
  \A x \in Labels : Len(form[x]) = 9 /\ \A i \in 1..9 : form[x][i] \in ColourLetters

\* The last request's form was well formed.
ParsedRequest == log # <<>> /\ last.op = "httpCube" /\ WellFormed(last.form)

\* What the code guarantees for the string it hands to the solver: 54 characters
\* in the order Up, Right, Front, Down, Left, Back; when the six centres are of
\* six colours each character is the label of the face whose centre has the
\* facelet's colour.
ScrambleOfRealCube ==
  ParsedRequest =>
    /\ last.invoked
    /\ Len(last.scramble) = 54
    /\ DistinctCentres(last.built) =>
         \A j \in 1..6 : \A i \in 0..8 :
           last.scramble[9 * (j - 1) + i + 1] =
             slotOf(last.built, at(last.built, <<"U", "R", "F", "D", "L", "B">>[j], i))

\* C16: for every cube that passes the parsing of the /cube handler (six strings
\* of 9 characters over w, r, g, b, y, o) the string KociembaScramble hands to
\* the solver has exactly 54 characters, every one of them in {U, R, F, D, L, B},
\* laid out as the physical faces Up, Right, Front, Down, Left, Back with 9
\* row-major characters each.
C16_ScrambleIs54FaceLetters ==
  /\ ScrambleOfRealCube
  /\ ParsedRequest => \A k \in 1..Len(last.scramble) : last.scramble[k] \in {"U", "R", "F", "D", "L", "B"}

\* Some facelet of the cube has a colour that no centre has.
StrayColour(cube) ==
  \E x \in Labels : \E i \in 0..8 : \A y \in Labels : at(cube, y, 4) # at(cube, x, i)

\* C17: a /cube request whose six centre facelets are not of six distinct
\* colours, or that holds a facelet whose colour is the colour of no centre, is
\* rejected with a validation error before the solver is invoked.
C17_ImpossibleCubeRejected ==
  (ParsedRequest /\ (~DistinctCentres(last.built) \/ StrayColour(last.built))) =>
    /\ ~last.invoked
    /\ last.status = 400

\* The faces of a form whose value has not 9 characters.
BadLengthFaces(form) == {x \in Labels : Len(form[x]) # 9}

\* The last request had one face of a wrong length and no other fault.
OneBadLength ==
  /\ log # <<>> /\ last.op = "httpCube"
  /\ Cardinality(BadLengthFaces(last.form)) = 1
  /\ \A x \in Labels : \A i \in 1..Len(last.form[x]) : last.form[x][i] \in ColourLetters

\* What the code does with such a request: status 400 and a text that names the
\* face; the solver is not run and no move is applied.
BadLengthRejectedNamingFace ==
  OneBadLength =>
    /\ last.status = 400
    /\ ~last.invoked /\ last.steps = <<>> /\ last.moves = <<>> /\ last.left = last.built
    /\ \A x \in BadLengthFaces(last.form) : Shows(last.body, <<x>>)

\* C18: a /cube request in which one face's string has a length other than 9 is
\* rejected with a validation error that names that face and states the number
\* of characters supplied and, for a short string, how many are missing; no cube
\* is solved and no move is applied for that request.
C18_BadLengthErrorStatesCounts ==
  /\ BadLengthRejectedNamingFace
  /\ OneBadLength =>
       \A x \in BadLengthFaces(last.form) :
         /\ Shows(last.body, Decimal(Len(last.form[x])))
         /\ Len(last.form[x]) < 9 => Shows(last.body, Decimal(9 - Len(last.form[x])))

\* C20: when the solver fails to start or exits non-zero while a /cube request
\* is served, only that request fails: the server process keeps running, and
\* later requests are still served.
C20_SolverFailureLeavesServerRunning ==
  \A k \in 1..Len(log) : (log[k].op = "httpCube" /\ log[k].failed) => ~Exited

\* The colour a field names, whatever the case of its letters.
colourNamed(s) ==
  CASE s \in {"w", "W", "white", "White", "WHITE", "wHiTe"} -> White
    [] s \in {"r", "R", "red", "Red", "RED"} -> Red
    [] s \in {"g", "G", "green", "Green", "GREEN"} -> Green
    [] s \in {"b", "B", "blue", "Blue", "BLUE"} -> Blue
    [] s \in {"y", "Y", "yellow", "Yellow", "YELLOW"} -> Yellow
    [] s \in {"o", "O", "orange", "Orange", "ORANGE", "oRANGE"} -> Orange
    [] OTHER -> Unknown

FullNames == {"red", "Red", "RED", "green", "Green", "GREEN", "blue", "Blue", "BLUE",
              "yellow", "Yellow", "YELLOW", "orange", "Orange", "ORANGE", "oRANGE"}

\* What the code does: the letters in either case and the name white in any case
\* give their colour; every other string, the five other names included, gives
\* Unknown.
ParseFieldKnowsLettersAndWhite ==
  (log # <<>> /\ last.op = "parseField") =>
    last.out[1] = (IF last.m \in FullNames THEN Unknown ELSE colourNamed(last.m))

\* C19: parseField maps each of the one-letter codes w, r, g, b, y, o and each
\* of the full names white, red, green, blue, yellow, orange, in any letter
\* case, to its Color, and every other string to Unknown.
C19_ParseFieldLettersAndNames ==
  (log # <<>> /\ last.op = "parseField") => last.out[1] = colourNamed(last.m)

\* The grids at the six labels of a cube, whatever the places they are kept at.
gridsOf(cube) == [x \in DOMAIN cube.faces |-> cube.pieces[cube.faces[x]]]

\* What httpCube makes of a request when no other request is under way.
aloneRun(form, run) ==
  IF readFaces(NewCube, form, 1).status # 200
    THEN rejected(form, readFaces(NewCube, form, 1))
    ELSE solved(form, readFaces(NewCube, form, 1).c,
                CHOOSE x \in KociembaScramble(readFaces(NewCube, form, 1).c) : TRUE, run)

\* The Faces a handler's cube points to.
facesOf(h) == IF h.pc \in {"idle", "killed"} THEN {} ELSE {h.faces[x] : x \in DOMAIN h.faces}

\* A handler that has returned did what it does when run alone.
SameAsAlone(h) ==
  /\ h.status = aloneRun(h.form, h.run).status
  /\ h.body = aloneRun(h.form, h.run).body
  /\ h.moves = aloneRun(h.form, h.run).moves
  /\ gridsOf(cubeOf(h, heap)) = gridsOf(aloneRun(h.form, h.run).left)
  /\ h.calibs = aloneRun(h.form, h.run).left.calibs

\* C21: two /cube requests handled side by side never share a Face (nor, each
\* holding its own in a local variable, a Cube or a calibs map), and under every
\* interleaving of the two handlers each request's final cube and actuation list
\* are those the request gives when it runs alone.
C21_HandlersDoNotInterfere ==
  /\ \A g1, g2 \in Handlers : g1 # g2 => facesOf(hs[g1]) \cap facesOf(hs[g2]) = {}
  /\ \A g \in Handlers : hs[g].pc = "done" => SameAsAlone(hs[g])

\* Handler 2 read its cube first and is in the middle of Apply; handler 1 came
\* later, has applied its moves to another cube and has returned.
C21_Witness ==
  /\ hs[1].pc = "done" /\ hs[1].moves # <<>>
  /\ hs[2].pc = "apply" /\ hs[2].i = 3 /\ hs[2].moves # <<>>
  /\ hs[1].form # hs[2].form
  /\ \A x \in facesOf(hs[2]), y \in facesOf(hs[1]) : x < y
  /\ SameAsAlone(hs[1])

\* The quarter turns a token asks of the turn motor.
quartersOf(m) ==
  CASE m \in {MoveTurn1, Moved} -> 1
    [] m = MoveTurn2 -> 2
    [] m \in {MoveRTurn, MoveD} -> -1
    [] m = MoveD2 -> -2
    [] OTHER -> 0

\* The quarter turns asked by the first k tokens of toks.
RECURSIVE quartersUpTo(_, _)
quartersUpTo(toks, k) == IF k = 0 THEN 0 ELSE quartersOf(toks[k]) + quartersUpTo(toks, k - 1)

\* The commands during which waitPosition gave up.
TimedOut == {k \in 1..Len(ev3.cmds) : ~ev3.cmds[k].ok}

\* C22: the client takes a timed-out waitPosition for success and goes on.
\* curTurn is 270 times the quarter turns asked so far, whether or not the
\* motor got there, and solve hands every token to Move in the order of steps:
\* when solve returns, all of them, and the closing turn(8), have been executed.
C22_TimeoutTakenForSuccess ==
  /\ ev3.moved = SubSeq(ev3.steps, 1, ev3.i - 1)
  /\ ev3.curTurn = turnUnit * (quartersUpTo(ev3.moved, Len(ev3.moved)) +
                               IF ev3.pc = "done" THEN lastTurn ELSE 0)
  /\ ev3.pc = "done" => ev3.moved = ev3.steps
  /\ \A k \in 1..Len(ev3.cmds) : ev3.cmds[k].motor = turnMotor =>
       ev3.cmds[k].pos = turnUnit * (quartersUpTo(ev3.moved, ev3.cmds[k].step - 1) + ev3.cmds[k].n)

\* The turn motor stalled during the first of three steps; solve went through
\* the other two and returned, with curTurn away from where the motor stands.
C22_Witness ==
  /\ ev3.pc = "done" /\ Len(ev3.steps) = 3
  /\ \E k \in TimedOut : ev3.cmds[k].motor = turnMotor /\ ev3.cmds[k].step = 1
  /\ \E k \in 1..Len(ev3.cmds) : ev3.cmds[k].step = 3 /\ ev3.cmds[k].ok
  /\ ev3.at[turnMotor] # ev3.curTurn

\* No facelet of the cube is Unknown.
NoUnknown(cube) ==
  \A o \in DOMAIN cube.pieces : \A i \in 0..8 : cube.pieces[o][i] # Unknown

\* The faces of a form that httpCube reads before it returns: those up to the
\* first one that is not 9 characters long or holds a character that is no colour.
ReadUpTo(form) ==
  {k \in 1..Len(faceCodes) :
     \A j \in 1..(k - 1) : /\ Len(form[faceCodes[j]]) = 9
                           /\ \A i \in 1..9 : form[faceCodes[j]][i] \in ColourLetters}

\* The places of a line that hold no colour letter.
NoColourAt(line) == {i \in 1..Len(line) : line[i] \notin ColourLetters}

\* Request r met a character that is no colour in a face it read.
MetUnknown(r) ==
  \E k \in ReadUpTo(r.form) : Len(r.form[faceCodes[k]]) = 9 /\ NoColourAt(r.form[faceCodes[k]]) # {}

\* The error of request r names the first character of its face k that is no colour.
NamesFirstUnknown(r, k) ==
  \E i \in NoColourAt(r.form[faceCodes[k]]) :
    /\ \A j \in NoColourAt(r.form[faceCodes[k]]) : i <= j
    /\ r.body[Len(r.body)] = <<r.form[faceCodes[k]][i]>>

\* C23: no facelet of a cube built by the /cube handler is ever Unknown.  A
\* face with a character that is no colour is rejected at the first such
\* character, nothing that runs later (the solver's steps applied to the cube)
\* brings in Unknown, and the cube handed to KociembaScramble and the solver has
\* all six faces and no Unknown facelet.
C23_NoUnknownFacelet ==
  \A n \in 1..Len(log) :
    /\ NoUnknown(log[n].built) /\ NoUnknown(log[n].left)
    /\ log[n].invoked => (DOMAIN log[n].built.faces = Labels /\ ~MetUnknown(log[n]))
    /\ \A k \in ReadUpTo(log[n].form) :
         (Len(log[n].form[faceCodes[k]]) = 9 /\ NoColourAt(log[n].form[faceCodes[k]]) # {}) =>
           /\ log[n].status = 400 /\ ~log[n].invoked
           /\ NamesFirstUnknown(log[n], k)
           /\ faceCodes[k] \notin DOMAIN log[n].built.faces

\* One request had the characters x and z on its fourth face and was rejected,
\* naming x, with the three faces before it read; another one was solved and
\* its cube was moved.
C23_Witness ==
  /\ Len(log) = 2
  /\ MetUnknown(log[1]) /\ log[1].status = 400 /\ Cardinality(DOMAIN log[1].built.faces) = 3
  /\ Cardinality(NoColourAt(log[1].form[Right])) = 2 /\ Shows(log[1].body, <<"x">>)
  /\ log[2].invoked /\ log[2].moves # <<>> /\ log[2].left # log[2].built
  /\ NoUnknown(log[2].left)

\* The index whose facelet a quarter turn of a grid, clockwise or counter-
\* clockwise as seen from outside, brings to index i (rows 0..2, 3..5, 6..8),
\* and the one a half turn brings there.
clockFrom(i) == 3 * (2 - (i % 3)) + (i \div 3)

counterFrom(i) == 3 * (i % 3) + (2 - (i \div 3))

halfFrom(i) == 8 - i

\* C24: flip() moves the grid at Up to Back, Back to Down, Down to Front and
\* Front to Up; the grids that are at Back and Down after the cycle are rotated
\* by 180 degrees, the Right grid 90 degrees clockwise, the Left grid 90 degrees
\* counter-clockwise, and no facelet of any grid changes otherwise.
C24_FlipCyclesAndRotates ==
  (log # <<>> /\ last.op = "flip") =>
    /\ c.faces[Back] = prev.faces[Up] /\ c.faces[Down] = prev.faces[Back]
    /\ c.faces[Front] = prev.faces[Down] /\ c.faces[Up] = prev.faces[Front]
    /\ c.faces[Right] = prev.faces[Right] /\ c.faces[Left] = prev.faces[Left]
    /\ DOMAIN c.pieces = DOMAIN prev.pieces
    /\ \A i \in 0..8 :
         /\ at(c, Back, i) = at(prev, Up, halfFrom(i))
         /\ at(c, Down, i) = at(prev, Back, halfFrom(i))
         /\ at(c, Front, i) = at(prev, Down, i)
         /\ at(c, Up, i) = at(prev, Front, i)
         /\ at(c, Right, i) = at(prev, Right, clockFrom(i))
         /\ at(c, Left, i) = at(prev, Left, counterFrom(i))

\* A flip of a cube that a turn and a spin had left with the six grids not
\* symmetric: every grid it touches shows the change.
C24_Witness ==
  /\ Len(log) = 3 /\ last.op = "flip" /\ log[1].op = "turn" /\ log[2].op = "D"
  /\ \E i \in 0..8 : at(prev, Up, i) # at(prev, Up, halfFrom(i))
  /\ \E i \in 0..8 : at(prev, Back, i) # at(prev, Back, halfFrom(i))
  /\ \E i \in 0..8 : at(prev, Right, i) # at(prev, Right, clockFrom(i))
  /\ \E i \in 0..8 : at(prev, Left, i) # at(prev, Left, counterFrom(i))
  /\ at(c, Back, 0) = at(prev, Up, 8)

\* The six grids after one quarter turn of the cube that takes the grid at Front
\* to Left, Left to Back, Back to Right and Right to Front, with Up rotated
\* clockwise and Down counter-clockwise.
turnedOnce(g) ==
  [x \in Labels |->
     [i \in 0..8 |->
        CASE x = Left -> g[Front][i]
          [] x = Back -> g[Left][i]
          [] x = Right -> g[Back][i]
          [] x = Front -> g[Right][i]
          [] x = Up -> g[Up][clockFrom(i)]
          [] x = Down -> g[Down][counterFrom(i)]]]

RECURSIVE turnedTimes(_, _)
turnedTimes(g, n) == IF n = 0 THEN g ELSE turnedTimes(Table(turnedOnce(g)), n - 1)

\* The six grids after one quarter turn as the sentence on turn has it: the grid
\* at Left moves to Front, Front to Right, Right to Back and Back to Left.
turnedOnceAsStated(g) ==
  [x \in Labels |->
     [i \in 0..8 |->
        CASE x = Front -> g[Left][i]
          [] x = Right -> g[Front][i]
          [] x = Back -> g[Right][i]
          [] x = Left -> g[Back][i]
          [] x = Up -> g[Up][clockFrom(i)]
          [] x = Down -> g[Down][counterFrom(i)]]]

RECURSIVE turnedTimesAsStated(_, _)
turnedTimesAsStated(g, n) ==
  IF n = 0 THEN g ELSE turnedTimesAsStated(Table(turnedOnceAsStated(g)), n - 1)

SameGrids(g, h) == \A x \in Labels : \A i \in 0..8 : g[x][i] = h[x][i]

\* C25 as stated: turn(1) moves the grid at Left to Front, Front to Right, Right
\* to Back and Back to Left, rotates Up clockwise and Down counter-clockwise, and
\* turn(n) is n such applications.
C25_TurnCyclesLeftToFront ==
  (log # <<>> /\ last.op = "turn") =>
    /\ SameGrids(gridsOf(c), turnedTimesAsStated(gridsOf(prev), last.n))
    /\ last.n = 1 => /\ c.faces[Front] = prev.faces[Left] /\ c.faces[Right] = prev.faces[Front]
                     /\ c.faces[Back] = prev.faces[Right] /\ c.faces[Left] = prev.faces[Back]

\* C25, amended: turn(1) moves the grid at Front to Left, Left to Back, Back to
\* Right and Right to Front (the direction opposite to the one stated), rotates
\* Up's facelets 90 degrees clockwise and Down's 90 degrees counter-clockwise,
\* and turn(n) is n such applications.
C25_TurnCyclesFrontToLeft ==
  (log # <<>> /\ last.op = "turn") =>
    /\ SameGrids(gridsOf(c), turnedTimes(gridsOf(prev), last.n))
    /\ last.n = 1 => /\ c.faces[Left] = prev.faces[Front] /\ c.faces[Back] = prev.faces[Left]
                     /\ c.faces[Right] = prev.faces[Back] /\ c.faces[Front] = prev.faces[Right]
                     /\ c.faces[Up] = prev.faces[Up] /\ c.faces[Down] = prev.faces[Down]

\* turn(1) and then turn(2) on the scrambled cube, after a flip: the grid that
\* was at Front is at Left after the first, and at Right after the second.
C25_Witness ==
  /\ Len(log) = 3 /\ log[1].op = "flip"
  /\ log[2].op = "turn" /\ log[2].n = 1 /\ last.op = "turn" /\ last.n = 2
  /\ before(1).faces[Left] = before(2).faces[Front]
  /\ c.faces[Right] = before(2).faces[Front]
  /\ before(1).faces[Front] # before(2).faces[Left]
  /\ \E i \in 0..8 : at(c, Up, i) # at(prev, Up, i)

\* The four side labels, and the places of a grid's bottom row.
Sides == {Left, Front, Right, Back}

BottomRow == 6..8

\* The grid at label x is as it was before the last call.
Untouched(x) == \A i \in 0..8 : at(c, x, i) = at(prev, x, i)

\* The Down grid is the one before the last call rotated 90 degrees clockwise.
DownClockwise == \A i \in 0..8 : at(c, Down, i) = at(prev, Down, clockFrom(i))

\* C26 as stated: one D() cycles the bottom rows of three side grids and rotates
\* the Down grid 90 degrees clockwise; the facelets of no other side grid, that
\* is of the fourth one, are changed.
C26_ThreeSideRowsCycle ==
  (log # <<>> /\ last.op = "D") =>
    /\ DownClockwise
    /\ \E y \in Sides :
         /\ Untouched(y)
         /\ \A x \in Sides \ {y} : \A i \in 0..5 : at(c, x, i) = at(prev, x, i)
         /\ \A x \in Sides \ {y} : \E z \in Sides \ {y} :
              \A i \in BottomRow : at(c, x, i) = at(prev, z, i)

\* C26, amended: one D() cycles the bottom rows (indices 6, 7, 8) of the four
\* side grids, all of them adjacent to Down -- Front's row goes to Right,
\* Right's to Back, Back's to Left and Left's to Front, index by index -- and
\* rotates the Down grid 90 degrees clockwise; no other facelet is changed.
C26_FourSideRowsCycle ==
  (log # <<>> /\ last.op = "D") =>
    /\ DownClockwise
    /\ Untouched(Up)
    /\ \A x \in Sides : \A i \in 0..5 : at(c, x, i) = at(prev, x, i)
    /\ \A i \in BottomRow :
         /\ at(c, Right, i) = at(prev, Front, i) /\ at(c, Back, i) = at(prev, Right, i)
         /\ at(c, Left, i) = at(prev, Back, i) /\ at(c, Front, i) = at(prev, Left, i)

\* A D() that changed the bottom row of each of the four side grids, and the
\* Down grid.
C26_Witness ==
  /\ log # <<>> /\ last.op = "D"
  /\ \A x \in Sides : \E i \in BottomRow : at(c, x, i) # at(prev, x, i)
  /\ ~Untouched(Down)
  /\ Len(log) = 2 /\ log[1].op = "flip"

\* The last call was one of the three spins.
Spun == log # <<>> /\ last.op \in {"D", "D2", "d"}

\* C27: D(), D2() and d() never change calibs nor which grid sits at which
\* physical label, and they leave the whole Up grid and indices 0..5 of the
\* Left, Front, Right and Back grids as they were: only indices 6..8 of the side
\* grids and the facelets of Down other than its centre may change.
C27_SpinsKeepFrame ==
  Spun =>
    /\ c.calibs = prev.calibs
    /\ c.faces = prev.faces
    /\ DOMAIN c.pieces = DOMAIN prev.pieces
    /\ c.pieces[c.faces[Up]] = prev.pieces[prev.faces[Up]]
    /\ \A x \in Sides : \A i \in 0..5 : at(c, x, i) = at(prev, x, i)
    /\ at(c, Down, 4) = at(prev, Down, 4)

\* d() on a cube that a flip had left with a calibration that is not the
\* identity: bottom rows and the Down grid changed, the rest did not.
C27_Witness ==
  /\ Len(log) = 2 /\ log[1].op = "flip" /\ last.op = "d"
  /\ c.calibs # start.calibs /\ c.calibs = prev.calibs
  /\ \E x \in Sides : \E i \in BottomRow : at(c, x, i) # at(prev, x, i)
  /\ \E i \in 0..8 : at(c, Down, i) # at(prev, Down, i)

\* The last two calls were op1 and then op2.
LastTwo(op1, op2) ==
  Len(log) >= 2 /\ log[Len(log) - 1].op = op1 /\ last.op = op2

\* C28: on every grid of nine facelets, rotateClock followed by
\* rotateCounterclock, and rotateCounterclock followed by rotateClock, change
\* nothing; four rotateClock in a row change nothing; two invert in a row change
\* nothing; and none of the three moves the facelet at index 4.
C28_GridHelpersInvertible ==
  /\ LastTwo("rotateClock", "rotateCounterclock") => c = before(2)
  /\ LastTwo("rotateCounterclock", "rotateClock") => c = before(2)
  /\ LastWere(4, "rotateClock", 0) => c = before(4)
  /\ LastTwo("invert", "invert") => c = before(2)
  /\ log # <<>> => at(c, Up, 4) = at(prev, Up, 4)

\* The grid with its one red facelet at index 1 after rotateClock four times:
\* the facelet went round by 5, 7 and 3 and is back.
C28_Witness ==
  /\ LastWere(4, "rotateClock", 0)
  /\ at(start, Up, 1) = Red /\ at(before(3), Up, 5) = Red
  /\ at(before(2), Up, 7) = Red /\ at(before(1), Up, 3) = Red
  /\ at(c, Up, 1) = Red

\* C29: d() undoes D() and D() undoes d(); D2() twice changes nothing; D() four
\* times changes nothing; and one D() moves the bottom row of Front to Right,
\* of Right to Back, of Back to Left and of Left to Front, each facelet keeping
\* its index.
C29_SpinsInvertible ==
  /\ LastTwo("D", "d") => c = before(2)
  /\ LastTwo("d", "D") => c = before(2)
  /\ LastTwo("D2", "D2") => c = before(2)
  /\ LastWere(4, "D", 0) => c = before(4)
  /\ (log # <<>> /\ last.op = "D") =>
       \A i \in BottomRow :
         /\ at(prev, Front, i) = at(c, Right, i) /\ at(prev, Right, i) = at(c, Back, i)
         /\ at(prev, Back, i) = at(c, Left, i) /\ at(prev, Left, i) = at(c, Front, i)

\* D(), d(), D2(), D2() on the scrambled cube: after the second and after the
\* fourth call the cube is the one it was two calls before, and between them
\* it was not.
C29_Witness ==
  /\ Len(log) = 4 /\ log[1].op = "D" /\ log[2].op = "d" /\ log[3].op = "D2" /\ log[4].op = "D2"
  /\ start = Scrambled
  /\ before(3) # start /\ before(2) = start /\ prev # start /\ c = start
  /\ \E i \in BottomRow : at(start, Front, i) # at(start, Right, i)

\* The reorientations that bring the grid at a physical slot to Down: none for
\* Down, a flip for Back, two flips for Up, and a turn by one, three or two
\* quarters and a flip for Left, Right and Front.
broughtDown(cube, slot) ==
  CASE slot = Down -> cube
    [] slot = Back -> flip(cube)
    [] slot = Up -> flip(flip(cube))
    [] slot = Left -> flip(turn(cube, 1))
    [] slot = Right -> flip(turn(cube, 3))
    [] slot = Front -> flip(turn(cube, 2))

\* The last two calls were successful moves on one face.
SameFaceTwice ==
  /\ Len(log) >= 2
  /\ RotateOK(log[Len(log) - 1]) /\ RotateOK(last)
  /\ last.m[1] = log[Len(log) - 1].m[1]

\* C30: after a successful Rotate of a move on the virtual face X, with any
\* suffix and from any state, calibs[X] is Down; a move on the same face X that
\* follows at once returns its one spin token and no reorientation; and
\* Rotate(X) followed by Rotate(X') leaves the cube as the reorientations that
\* bring X's slot to Down, and nothing else, make it from the cube before the
\* two moves.
C30_MovedFaceStaysDown ==
  /\ (log # <<>> /\ RotateOK(last)) => c.calibs[last.m[1]] = Down
  /\ SameFaceTwice => last.out = <<spinFor(last.m)>>
  /\ MoveThenInverse => c = broughtDown(before(2), before(2).calibs[last.m[1]])

\* The cube was turned, so that the virtual face L sits at the slot Back; L and
\* then L' were applied: a flip and a spin, then the opposite spin alone.
C30_Witness ==
  /\ Len(log) = 3 /\ log[1].op = "turn" /\ log[1].n = 1
  /\ MoveThenInverse /\ last.m = <<"L", "'">>
  /\ before(2).calibs[Left] = Back
  /\ log[2].out = <<"flip", "D">> /\ last.out = <<"D'">>
  /\ c.calibs[Left] = Down
  /\ c = flip(before(2)) /\ c # before(2)

\* The 18 strings made of a face letter followed by nothing, by 2 or by '.
EighteenMoves ==
  {<<x>> \o sfx : x \in {"U", "D", "L", "R", "F", "B"}, sfx \in {<<>>, <<"2">>, <<"'">>}}

\* C31: for every token that is not empty, in every calibration, Rotate returns
\* no error exactly when the token is one of the 18 strings made of a face
\* letter in U, D, L, R, F, B followed by nothing, 2 or '; for every other token
\* it returns an error and leaves faces, facelets and calibs as they were.
C31_RotateAcceptsEighteen ==
  (log # <<>> /\ last.op = "Rotate" /\ last.m # <<>>) =>
    /\ last.err = NoErr <=> last.m \in EighteenMoves
    /\ last.m \notin EighteenMoves =>
         /\ last.err # NoErr /\ last.out = <<>>
         /\ c.faces = prev.faces /\ c.pieces = prev.pieces /\ c.calibs = prev.calibs

\* On a cube that was turned and then moved, so that no virtual face but Up sits
\* at its own slot, the token U2' was refused and the cube stayed as it was.
C31_Witness ==
  /\ Len(log) = 3 /\ log[1].op = "turn" /\ RotateOK(log[2])
  /\ last.op = "Rotate" /\ last.m = <<"U", "2", "'">> /\ last.err # NoErr
  /\ \A v \in Labels : c.calibs[v] # v
  /\ c = prev /\ prev # before(2)

\* The moves of the last Apply's list that come before its first malformed token.
AppliedBeforeFailure == Trimmed(SubSeq(last.ms, 1, FirstMalformed(last.ms) - 1))

\* C32: when Apply fails at a malformed token that follows one valid token or
\* more, it returns no actuation list with the error, while faces, facelets
\* and calibs are those the valid tokens before it have made: the tokens of the
\* moves that were applied do not reach the caller.
C32_FailedApplyReturnsNoTokens ==
  (ApplyFailed /\ AppliedBeforeFailure # <<>>) =>
    /\ last.out = <<>>
    /\ c.faces = RotateInOrder(prev, AppliedBeforeFailure).c.faces
    /\ c.pieces = RotateInOrder(prev, AppliedBeforeFailure).c.pieces
    /\ c.calibs = RotateInOrder(prev, AppliedBeforeFailure).c.calibs
    /\ RotateInOrder(prev, AppliedBeforeFailure).out # <<>>

\* Apply was given R' and then U3 on the scrambled cube: R' was applied with a
\* turn, a flip and a spin, U3 was refused, and no token came back.
C32_Witness ==
  /\ ApplyFailed /\ last.ms = << <<"R", "'">>, <<"U", "3">> >>
  /\ prev = Scrambled
  /\ RotateInOrder(prev, AppliedBeforeFailure).out = <<"turn'", "flip", "D'">>
  /\ last.out = <<>>
  /\ c.calibs["R"] = Down /\ c.calibs # prev.calibs

\* The facelets of a cube that have the colour col.
facelets(cube, col) == {<<x, i>> \in Labels \X (0..8) : at(cube, x, i) = col}

\* C33: flip, turn(n) and D, and with them D2, d, Rotate and Apply, only permute
\* the 54 facelets: in every reachable state the six physical labels point to
\* six grids that are pairwise distinct, and every colour is on as many
\* facelets as at construction.
C33_FaceletsOnlyPermuted ==
  /\ DOMAIN c.faces = Labels
  /\ \A x, y \in Labels : x # y => c.faces[x] # c.faces[y]
  /\ \A col \in White..Unknown :
       Cardinality(facelets(c, col)) = Cardinality(facelets(start, col))

\* The scrambled cube, which has nine facelets of each colour, after a flip and
\* a move on the Left face: no grid is at the label it started at with the
\* facelets it started with.
C33_Witness ==
  /\ Len(log) = 2 /\ log[1].op = "flip" /\ RotateOK(last) /\ last.m = <<"L">>
  /\ start = Scrambled
  /\ \A col \in White..Orange : Cardinality(facelets(c, col)) = 9
  /\ \A x \in Labels : start.pieces[start.faces[x]] # c.pieces[c.faces[x]]

\* What the loop of waitPosition does keep to: n never goes below zero, and the
\* polls made are at most the microseconds of the timeout divided by 50.
WaitStopsByMicrosecondCount ==
  /\ ev3.n >= 0
  /\ (ev3.pc = "loop" \/ ev3.polls > 0) =>
       ev3.polls * pollSleep + ev3.n = ev3.timeout * 1000
  /\ (ev3.pc = "returned" /\ ~ev3.ok) => ev3.n = 0

\* C34: waitPosition always returns, and when the motor never comes within 5 of
\* the target it gives up and returns false after at most timeout / 50 ms polls
\* of 50 ms each: at most 30 polls, about 1.5 s, for the default timeout of
\* 1500 ms.
C34_GivesUpWithinTimeout ==
  /\ ev3.polls <= ev3.timeout \div pollSleep
  /\ ev3.timeout = defaultTimeout => ev3.polls <= 30

\* With the default timeout and a motor that stays away, waitPosition returns
\* false after 30000 polls of 50 ms.
WaitGaveUpAfterDefaultTimeout ==
  /\ ev3.pc = "returned" /\ ~ev3.ok
  /\ ev3.timeout = defaultTimeout /\ ev3.polls = 30000

\* The quarter turns of the reorientation tokens, and the reorientation token
\* that matches each spin token.
reorientQuarters(t) ==
  CASE t = "turn" -> 1
    [] t = "turn2" -> 2
    [] t = "turn'" -> -1

matchingReorientation(t) ==
  CASE t = "D" -> "turn"
    [] t = "D2" -> "turn2"
    [] t = "D'" -> "turn'"

\* The commands given during step s, by their places in cmds.
StepCmds(s) == {k \in 1..Len(ev3.cmds) : ev3.cmds[k].step = s}

\* Command k is for the given motor, with the given setpoint.
GoesTo(k, motor, target) == ev3.cmds[k].motor = motor /\ ev3.cmds[k].pos = target

\* Command k turns the turn motor by n quarters.
Turns(k, n) == ev3.cmds[k].motor = turnMotor /\ ev3.cmds[k].n = n

\* When command k is given the cube is held: the last command to the flip
\* motor before it was holdCube's.
HeldAt(k) ==
  \E j \in 1..(k - 1) :
    /\ GoesTo(j, flipMotor, holdPos)
    /\ \A i \in (j + 1)..(k - 1) : ev3.cmds[i].motor # flipMotor

\* C35: in the EV3 client every spin token (D, D2, D') runs holdCube, then a
\* turn of the turn motor, then releaseCube, in that order, the turn being the
\* opposite of the matching reorientation token's (D: -1, D2: -2, D': +1 quarter
\* turns, against +1, +2, -1 for turn, turn2, turn'); and the reorientation
\* tokens (flip, turn, turn2, turn') never run the turn motor while the cube is
\* held.
C35_SpinsHoldTurnRelease ==
  \A s \in 1..Len(ev3.moved) :
    /\ ev3.moved[s] \in SpinTokens =>
         \E k \in StepCmds(s) :
           /\ StepCmds(s) = {k, k + 1, k + 2}
           /\ GoesTo(k, flipMotor, holdPos)
           /\ Turns(k + 1, 0 - reorientQuarters(matchingReorientation(ev3.moved[s])))
           /\ HeldAt(k + 1)
           /\ GoesTo(k + 2, flipMotor, releasePos)
    /\ ev3.moved[s] \in {"turn", "turn2", "turn'"} =>
         \E k \in StepCmds(s) : StepCmds(s) = {k} /\ Turns(k, reorientQuarters(ev3.moved[s]))
    /\ ev3.moved[s] \in ReorientTokens =>
         \A k \in StepCmds(s) : ev3.cmds[k].motor = turnMotor => ~HeldAt(k)

\* turn2, D2 and turn' have been executed with every motor reaching its target:
\* the turn motor went to 540, back to 0 with the cube held, and on to -270
\* with the cube let go.
C35_Witness ==
  /\ ev3.moved = <<"turn2", "D2", "turn'">>
  /\ TimedOut = {}
  /\ Len(ev3.cmds) = 5
  /\ Turns(1, 2) /\ ev3.cmds[1].pos = 540 /\ ~HeldAt(1)
  /\ Turns(3, -2) /\ ev3.cmds[3].pos = 0 /\ HeldAt(3)
  /\ Turns(5, -1) /\ ev3.cmds[5].pos = -270 /\ ~HeldAt(5)

\* The last request was answered with the line OK: ..., written after Apply
\* had returned its list.
AnsweredOK == log # <<>> /\ last.body # <<>> /\ last.body[1] = "OK: step=%d: %s %v"

\* What sendRequest returned is the list Apply returned, token by token.
Recovered ==
  /\ ev3.err = NoErr
  /\ Len(ev3.steps) = Len(last.moves)
  /\ \A k \in 1..Len(last.moves) : ev3.steps[k] = tokenChars(last.moves[k])

\* What the client does recover: every list that is not empty.
NonEmptyListRecovered == (AnsweredOK /\ last.moves # <<>>) => Recovered

\* C36: for every actuation list the server can return from Apply, the empty
\* list of an empty solution included, the client's sendRequest gets from the
\* response line OK: <solution> [<tokens>] exactly that sequence of tokens, in
\* the same order, and reports no error.
C36_ClientRecoversTokens == AnsweredOK => Recovered

\* The solver printed D2, two blanks and F; the client got back the four
\* tokens Apply had returned for them.
ClientRecoveredTokens ==
  /\ AnsweredOK /\ Recovered
  /\ last.moves = <<"D2", "turn2", "flip", "D">>
  /\ ev3.steps = << <<"D", "2">>, <<"t", "u", "r", "n", "2">>, <<"f", "l", "i", "p">>, <<"D">> >>

\* The solver printed nothing for a cube that is solved: the server answered
\* with an empty list, and the client reported that no solution was found.
EmptyListTakenForFailure ==
  /\ AnsweredOK /\ last.moves = <<>>
  /\ responseText(last) = <<"O", "K", ":", " ", "s", "t", "e", "p", "=", "1", ":", " ", " ", "[", "]">>
  /\ ev3.err = solutionNotFound

====
